---- MODULE Spec2Model ----
(***************************************************************************)
(* Model of the realtime session relay.                                    *)
(*                                                                         *)
(* Two session objects live in the repository:                             *)
(*   - apps/worker/src/realtimeSession.ts: the Durable Object with the     *)
(*     client.xxx message vocabulary, guardrails, tool execution, the     *)
(*     end-of-call finalize and the summary. Specification Spec.           *)
(*   - workers/realtime/src/durable/RealtimeSession.ts: the relay with the *)
(*     client event whitelist and the per-call_id argument buffers.        *)
(*     Specification SpecRelay.                                            *)
(*                                                                         *)
(* Scheduling. A handler runs to completion on the single JavaScript       *)
(* thread. An `await` of a promise that settles without I/O (runTool and   *)
(* its handlers, registry.getScenarioById, runToolSafe) resumes in the     *)
(* microtask queue, before the next event is delivered. An `await` of      *)
(* state.storage.put/get is covered by the Durable Object input gate: no   *)
(* other event is delivered to the object until it settles. The only       *)
(* await across which other events are delivered is the outbound           *)
(* fetch() that opens the upstream socket. An async function called        *)
(* without await runs up to its first await, then the rest of the caller   *)
(* runs, then the continuation.                                            *)
(***************************************************************************)
EXTENDS Integers, Sequences, FiniteSets, TLC

(***************************************************************************)
(* Bounds of the model.                                                    *)
(***************************************************************************)
MaxConns == 2          \* client sockets accepted by one session object
ProtoConns == 1        \* the same, in SpecProto
ToolsConns == 1        \* the same, in SpecTools
MaxUpstream == 1       \* upstream sockets opened by one session object
MaxConnecting == 1     \* connectToOpenAI calls awaiting fetch() at once
MaxTime == 2           \* clock values 0..MaxTime
MaxToolResults == 2    \* entries in the tool-result log
MaxAudio == 1          \* cap of the audio chunk counters
MaxTranscript == 1     \* transcript entries appended in a run
MaxPending == 1        \* deltas held in a text accumulator
LinkConns == 1         \* client sockets, in SpecLink
LinkUpstreams == 2     \* upstream sockets, in SpecLink
MaxAppends == 32       \* non-blank texts handed to the transcript, in SpecTranscript
MaxUserEntries == 1    \* user texts among them
MaxHeard == 2          \* deltas held in a text accumulator, in SpecText
MaxCompleted == 2      \* completed texts kept in the transcript, in SpecText
MaxCallEnded == 2      \* server.call_ended events counted per client socket

(***************************************************************************)
(* Configuration (env) of the modelled deployment.                         *)
(***************************************************************************)
MAX_SESSION_SECONDS == 1
MAX_RESPONSES == 1
MAX_TRANSCRIPT_ENTRIES == 30

Null == "null"
NoTime == -1

(***************************************************************************)
(* JSON.parse on texts given as sequences of characters. The subset:       *)
(* objects, strings without escapes, digits, blanks between tokens.        *)
(***************************************************************************)
Quote == "'"
Digits == {"0", "1"}
NullVal == [k |-> "null", s |-> <<>>, m |-> {}]
PFail == [ok |-> FALSE, v |-> NullVal, i |-> 0]
StrVal(s) == [k |-> "str", s |-> s, m |-> {}]
NumVal(s) == [k |-> "num", s |-> s, m |-> {}]
ObjVal(m) == [k |-> "obj", s |-> <<>>, m |-> m]
EmptyObject == ObjVal({})

RECURSIVE SkipWs(_, _)
SkipWs(s, i) == IF i <= Len(s) /\ s[i] = " " THEN SkipWs(s, i + 1) ELSE i

RECURSIVE FindQuote(_, _)
FindQuote(s, j) ==
  IF j > Len(s) THEN 0 ELSE IF s[j] = Quote THEN j ELSE FindQuote(s, j + 1)

\* s[i] is the opening quote
PString(s, i) ==
  LET j == FindQuote(s, i + 1)
  IN IF j = 0 THEN PFail
     ELSE [ok |-> TRUE, v |-> StrVal(SubSeq(s, i + 1, j - 1)), i |-> j + 1]

\* a later member with the same key replaces the earlier one
PutMember(m, key, val) == {p \in m : p[1] # key} \cup {<<key, val>>}

RECURSIVE PValue(_, _)
RECURSIVE PMembers(_, _, _)
PMembers(s, i, acc) ==
  IF i > Len(s) \/ s[i] # Quote THEN PFail
  ELSE LET key == PString(s, i)
       IN IF ~key.ok THEN PFail
          ELSE LET c == SkipWs(s, key.i)
               IN IF c > Len(s) \/ s[c] # ":" THEN PFail
                  ELSE LET val == PValue(s, SkipWs(s, c + 1))
                       IN IF ~val.ok THEN PFail
                          ELSE LET e == SkipWs(s, val.i)
                                   acc2 == PutMember(acc, key.v.s, val.v)
                               IN IF e > Len(s) THEN PFail
                                  ELSE IF s[e] = "}"
                                    THEN [ok |-> TRUE, v |-> ObjVal(acc2), i |-> e + 1]
                                  ELSE IF s[e] = ","
                                    THEN PMembers(s, SkipWs(s, e + 1), acc2)
                                  ELSE PFail

PValue(s, i) ==
  IF i > Len(s) THEN PFail
  ELSE IF s[i] = "{"
    THEN LET j == SkipWs(s, i + 1)
         IN IF j <= Len(s) /\ s[j] = "}"
              THEN [ok |-> TRUE, v |-> EmptyObject, i |-> j + 1]
              ELSE PMembers(s, j, {})
  ELSE IF s[i] = Quote THEN PString(s, i)
  ELSE IF s[i] \in Digits THEN [ok |-> TRUE, v |-> NumVal(<<s[i]>>), i |-> i + 1]
  ELSE PFail

JsonParse(s) ==
  LET r == PValue(s, SkipWs(s, 1))
  IN IF r.ok /\ SkipWs(s, r.i) = Len(s) + 1
       THEN [ok |-> TRUE, v |-> r.v]
       ELSE [ok |-> FALSE, v |-> NullVal]

isObject(v) == v.k = "obj"

RECURSIVE TrimLeft(_)
TrimLeft(s) == IF s # <<>> /\ Head(s) = " " THEN TrimLeft(Tail(s)) ELSE s
RECURSIVE TrimRight(_)
TrimRight(s) ==
  IF s # <<>> /\ s[Len(s)] = " " THEN TrimRight(SubSeq(s, 1, Len(s) - 1)) ELSE s
Trim(s) == TrimRight(TrimLeft(s))

HasMember(v, key) == \E p \in v.m : p[1] = key
Member(v, key) == (CHOOSE p \in v.m : p[1] = key)[2]


(***************************************************************************)
(* Domains of the inputs.                                                  *)
(***************************************************************************)
Conns == 1..(MaxConns + ProtoConns + ToolsConns)
Upstreams == 1..(MaxUpstream + LinkUpstreams)
CallIds == {"c1", "c2"}
ToolNames == {"grade_lesson", "trigger_quiz"}
\* scenario ids known to the registry; "cafe" has auto_quiz on end_call
KnownScenarios == {"cafe", "taxi"}
AutoQuizScenarios == {"cafe"}
ScenarioParams == {Null, "cafe", "taxi", "nope"}
TopicKey == <<"t", "o", "p", "i", "c">>
DefaultGradeTopic == <<"general conversation">>
DefaultQuizTopic == <<"vocabulary review">>
NoScore == -1

VARIABLES
  now,                     \* wall clock
  session,                 \* [sessionId, scenarioId]
  clientWs,                \* client socket held by the object, 0 = null
  openaiWs,                \* upstream socket held by the object, 0 = null
  clientSock,              \* state of every client socket ever accepted
  openaiSock,              \* state of every upstream socket ever opened
  pendingResponseText,
  pendingAudioTranscript,
  pendingToolCalls,
  toolResults,
  startedAt,
  endedAt,
  terminationReason,
  guardrailTimer,          \* interval handle held by the object, 0 = null
  timers,                  \* intervals that are armed in the runtime
  stats,
  transcript,
  progress,
  loadedScenario,
  storage,                 \* the Durable Object storage
  connecting,              \* connectToOpenAI calls awaiting fetch()
  executed,                \* history: tool executor invocations per call_id
  synthesized,             \* history: entries appended by handleEndCall per tool name
  transcribed,             \* history: non-blank texts handed to the transcript
  heard,                   \* history: deltas received since the last reset, per kind
  callEnded,               \* history: server.call_ended sent per client socket
  step                     \* history: what the last handler did

wvars == <<now, session, clientWs, openaiWs, clientSock, openaiSock,
           pendingResponseText, pendingAudioTranscript, pendingToolCalls,
           toolResults, startedAt, endedAt, terminationReason, guardrailTimer,
           timers, stats, transcript, progress, loadedScenario, storage,
           connecting, executed, synthesized, transcribed, heard, callEnded,
           step>>

\* State of the relay of workers/realtime
RelayConns == 1        \* client sockets accepted by the relay object
RelayUpstreams == 1    \* upstream sockets opened by the relay object
MaxDeltas == 2         \* argument deltas of one call

RConns == 1..(RelayConns + 1)
RUps == 1..(RelayUpstreams + 1)

CLIENT_EVENT_WHITELIST ==
  {"input_audio_buffer.append", "input_audio_buffer.commit", "response.cancel",
   "conversation.item.truncate", "response.create"}

VARIABLES
  scenario,                \* scenario of the relay, Null before fetch
  clientSocket,            \* 0 = null
  upstreamSocket,          \* 0 = null
  relayClientSock,         \* state of every client socket of the relay
  relayUpstreamSock,       \* state of every upstream socket of the relay
  toolArgsByCallId,        \* call_id -> buffer, has = FALSE when absent
  upstreamFetch,           \* connectUpstream calls awaiting fetch() or text()
  deltaLog,                \* history: deltas received per call_id since its last done
  firstSent,               \* history: type of the first event sent on each upstream socket
  rstep                    \* history: what the last relay handler did

rvars == <<scenario, clientSocket, upstreamSocket, relayClientSock,
           relayUpstreamSock, toolArgsByCallId, upstreamFetch, deltaLog, firstSent,
           rstep>>

\* The router of apps/worker in front of the session objects
VARIABLES
  routed                   \* history: the last /realtime request and its answer

avars == <<routed>>

vars == <<wvars, rvars, avars>>

NoBuffer == [has |-> FALSE, name |-> "", argsText |-> <<>>]
NoFrame == [data |-> "none", type |-> "", callId |-> Null, name |-> "", delta |-> <<>>]
RelayIdle == [op |-> "init", ws |-> 0, frame |-> NoFrame, toClient |-> <<>>,
              toUpstream |-> <<>>, ran |-> <<>>, closed |-> {}]

\* the body of a token: parses is FALSE when it does not decode to JSON,
\* hasExp is FALSE when the payload has no numeric exp
TokenPayload(sessionKey, scenarioId, exp) ==
  [parses |-> TRUE, sessionKey |-> sessionKey, scenarioId |-> scenarioId,
   hasExp |-> TRUE, exp |-> exp]
NoPayload == [parses |-> FALSE, sessionKey |-> Null, scenarioId |-> Null,
              hasExp |-> FALSE, exp |-> 0]

\* crypto.subtle.sign("HMAC", key, data); decodes is FALSE for a signature
\* part that is no base64
hmacSign(data, secret) == [decodes |-> TRUE, data |-> data, key |-> secret]
NotBase64 == [decodes |-> FALSE, data |-> NoPayload, key |-> ""]

\* header.body.signature; parts counts the pieces between the dots
Token(parts, body, sig) == [given |-> TRUE, parts |-> parts, body |-> body, sig |-> sig]
NoToken == [given |-> FALSE, parts |-> 0, body |-> NoPayload, sig |-> NotBase64]

\* a /realtime request as the router reads it, and its answer
Request(upgrade, requireAuth, token, key, scenarioId) ==
  [upgrade |-> upgrade, requireAuth |-> requireAuth, token |-> token,
   session |-> key, scenarioId |-> scenarioId]
Answer(status, info, forwarded, sessionKey) ==
  [status |-> status, info |-> info, forwarded |-> forwarded, sessionKey |-> sessionKey]
NoRouted == [req |-> Request(Null, FALSE, NoToken, Null, Null), at |-> 0,
             answer |-> Answer(0, "", FALSE, Null)]

NoneHeard == [text |-> <<>>, audio |-> <<>>]
NoProgress == [completed |-> FALSE, completionScore |-> NoScore, completedAt |-> NoTime]
ZeroStats == [audioChunksIn |-> 0, audioChunksOut |-> 0, toolCalls |-> 0,
              responsesCreated |-> 0]
EmptyStorage == [toolResults |-> <<>>, startedAt |-> NoTime, endedAt |-> NoTime,
                 terminationReason |-> Null, stats |-> ZeroStats,
                 scenarioId |-> Null, transcript |-> <<>>, progress |-> NoProgress]
NoMsg == [data |-> "none", type |-> "", scenarioId |-> Null, hasText |-> FALSE,
          text |-> <<>>, hasAudio |-> FALSE]
NoEvent == [type |-> "", has |-> FALSE, str |-> <<>>, callId |-> Null, name |-> "",
            item |-> ""]
IdleStep == [op |-> "init", ws |-> 0, msg |-> NoMsg, evt |-> NoEvent,
             toClient |-> <<>>, toOpenAI |-> <<>>, puts |-> {}, ran |-> <<>>,
             closed |-> {}]

\* The state of the object and of its runtime as one value; the handlers
\* below are functions from such a value to the next one.
Cur == [session |-> session, clientWs |-> clientWs, openaiWs |-> openaiWs,
        clientSock |-> clientSock, openaiSock |-> openaiSock,
        pendingResponseText |-> pendingResponseText,
        pendingAudioTranscript |-> pendingAudioTranscript,
        pendingToolCalls |-> pendingToolCalls, toolResults |-> toolResults,
        startedAt |-> startedAt, endedAt |-> endedAt,
        terminationReason |-> terminationReason,
        guardrailTimer |-> guardrailTimer, timers |-> timers, stats |-> stats,
        transcript |-> transcript, progress |-> progress,
        loadedScenario |-> loadedScenario, storage |-> storage,
        connecting |-> connecting, executed |-> executed,
        synthesized |-> synthesized, transcribed |-> transcribed,
        heard |-> heard,
        toClient |-> <<>>, toOpenAI |-> <<>>, puts |-> {}, ran |-> <<>>,
        closed |-> {}]

\* v, evaluated once, handed to F: the statements of a handler run in order
Pick(S) == CHOOSE v \in S : TRUE
Bind(v, F(_)) == Pick({F(t) : t \in {v}})

\* server.call_ended events per client socket, counted up to MaxCallEnded
Ended(count, sent) ==
  [c \in DOMAIN count |->
     LET more == Cardinality({k \in DOMAIN sent :
                                sent[k].ws = c /\ sent[k].type = "server.call_ended"})
     IN IF count[c] + more > MaxCallEnded THEN MaxCallEnded ELSE count[c] + more]

Commit(s, op, ws, msg, evt) ==
  /\ session' = s.session
  /\ clientWs' = s.clientWs
  /\ openaiWs' = s.openaiWs
  /\ clientSock' = s.clientSock
  /\ openaiSock' = s.openaiSock
  /\ pendingResponseText' = s.pendingResponseText
  /\ pendingAudioTranscript' = s.pendingAudioTranscript
  /\ pendingToolCalls' = s.pendingToolCalls
  /\ toolResults' = s.toolResults
  /\ startedAt' = s.startedAt
  /\ endedAt' = s.endedAt
  /\ terminationReason' = s.terminationReason
  /\ guardrailTimer' = s.guardrailTimer
  /\ timers' = s.timers
  /\ stats' = s.stats
  /\ transcript' = s.transcript
  /\ progress' = s.progress
  /\ loadedScenario' = s.loadedScenario
  /\ storage' = s.storage
  /\ connecting' = s.connecting
  /\ executed' = s.executed
  /\ synthesized' = s.synthesized
  /\ transcribed' = s.transcribed
  /\ heard' = s.heard
  /\ callEnded' = Ended(callEnded, s.toClient)
  /\ step' = [op |-> op, ws |-> ws, msg |-> msg, evt |-> evt,
              toClient |-> s.toClient, toOpenAI |-> s.toOpenAI,
              puts |-> s.puts, ran |-> s.ran, closed |-> s.closed]
  /\ UNCHANGED rvars
  /\ UNCHANGED avars

(***************************************************************************)
(* Primitives.                                                             *)
(***************************************************************************)
ClientEvent(ws, type, info, text) ==
  [ws |-> ws, type |-> type, info |-> info, text |-> text]
OpenAIEvent(ws, type, item, callId) ==
  [ws |-> ws, type |-> type, item |-> item, callId |-> callId]

\* ws.send throws on a socket that is not open; sendJson swallows it
sendJson(s, ws, type, info, text) ==
  IF ws # 0 /\ s.clientSock[ws] = "open"
    THEN [s EXCEPT !.toClient = Append(@, ClientEvent(ws, type, info, text))]
    ELSE s

\* a refusal that is dropped without an answer, as the relay does
sendError_silent(s, ws, info) == s

\* this.sendJson(ws, { type: "server.error", error })
sendError(s, ws, info) == sendJson(s, ws, "server.error", info, <<>>)

openaiSend(s, ws, type, item, callId) ==
  IF s.openaiSock[ws] = "open"
    THEN [s EXCEPT !.toOpenAI = Append(@, OpenAIEvent(ws, type, item, callId))]
    ELSE s

\* a put that never reaches the store
storagePut_lost(s, key, val) == [s EXCEPT !.puts = @ \cup {key}]

\* this.state.storage.put(key, val)
storagePut(s, key, val) ==
  [s EXCEPT !.storage = [@ EXCEPT ![key] = val], !.puts = @ \cup {key}]

closeClient(s, ws) ==
  IF s.clientSock[ws] = "open"
    THEN [s EXCEPT !.clientSock[ws] = "closing", !.closed = @ \cup {<<"client", ws>>}]
    ELSE s

closeOpenAI(s, ws) ==
  IF s.openaiSock[ws] = "open"
    THEN [s EXCEPT !.openaiSock[ws] = "closing", !.closed = @ \cup {<<"openai", ws>>}]
    ELSE s

clearTimers(s) ==
  IF s.guardrailTimer # 0
    THEN [s EXCEPT !.timers = @ \ {s.guardrailTimer}, !.guardrailTimer = 0]
    ELSE s

forwardToOpenAI(s, type, item, callId) ==
  IF s.openaiWs = 0
    THEN IF s.clientWs # 0 THEN sendError(s, s.clientWs, "Not connected to OpenAI")
                           ELSE s
  ELSE IF s.openaiSock[s.openaiWs] = "open"
    THEN openaiSend(s, s.openaiWs, type, item, callId)
  ELSE IF s.clientWs # 0 THEN sendError(s, s.clientWs, "Failed to send to OpenAI")
  ELSE s


(***************************************************************************)
(* The tool executor. The score of grade_lesson is abstracted to the       *)
(* number of user utterances of the transcript it is given.                *)
(***************************************************************************)
ToolResult(ok, tool, topic, score, error) ==
  [ok |-> ok, tool |-> tool, topic |-> topic, score |-> score, error |-> error]

StringArg(args, key, default) ==
  IF HasMember(args, key) /\ Member(args, key).k = "str"
    THEN Member(args, key).s ELSE default

UserUtterances(tr) == Cardinality({i \in DOMAIN tr : tr[i].role = "user"})

gradeLesson(args, ctx) ==
  ToolResult(TRUE, "grade_lesson", StringArg(args, TopicKey, DefaultGradeTopic),
             UserUtterances(ctx.transcript), "")

triggerQuiz(args, ctx) ==
  ToolResult(TRUE, "trigger_quiz", StringArg(args, TopicKey, DefaultQuizTopic),
             NoScore, "")

\* toolRunner.safeJsonParse: an object, or {} when the text does not parse
safeJsonParse(raw) ==
  LET p == JsonParse(raw) IN IF p.ok /\ isObject(p.v) THEN p.v ELSE EmptyObject

runTool(name, args, ctx) ==
  IF name \notin {"grade_lesson", "trigger_quiz"}
    THEN ToolResult(FALSE, "", <<>>, NoScore, "Unknown tool")
    ELSE LET parsedArgs == IF args.k = "str" THEN safeJsonParse(args.s) ELSE args
         IN IF name = "grade_lesson" THEN gradeLesson(parsedArgs, ctx)
                                     ELSE triggerQuiz(parsedArgs, ctx)

buildToolContext(s) ==
  [scenarioId |-> s.session.scenarioId, sessionId |-> s.session.sessionId,
   transcript |-> s.transcript, scenario |-> s.loadedScenario]

ToolResultEntry(name, result, at) == [name |-> name, result |-> result, at |-> at]

(***************************************************************************)
(* Guardrails and termination.                                             *)
(***************************************************************************)
\* terminateSession after its first await
terminateSessionRest(s, reason, message) ==
  Bind(storagePut(s, "terminationReason", reason), LAMBDA s1 :
  Bind(storagePut(s1, "stats", s1.stats), LAMBDA s2 :
  Bind(IF s2.clientWs # 0 THEN sendError(s2, s2.clientWs, message) ELSE s2, LAMBDA s3 :
  Bind(IF s3.clientWs # 0
         THEN sendJson(s3, s3.clientWs, "server.call_ended", reason, <<>>)
         ELSE s3, LAMBDA s4 :
  Bind(IF s4.openaiWs # 0 THEN closeOpenAI(s4, s4.openaiWs) ELSE s4, LAMBDA s5 :
  Bind([s5 EXCEPT !.openaiWs = 0], LAMBDA s6 :
  Bind(IF s6.clientWs # 0 THEN closeClient(s6, s6.clientWs) ELSE s6, LAMBDA s7 :
  clearTimers([s7 EXCEPT !.clientWs = 0]))))))))

\* what the caller of checkResponseLimit still runs after the call:
\* handleMessage forwards response.create, the other callers return
callerRest(s, rest) ==
  IF rest = "forward" THEN forwardToOpenAI(s, "response.create", "", Null) ELSE s

\* a termination that does not look at an earlier one
terminateSession_again(s, reason, message, rest) ==
  Bind([s EXCEPT !.terminationReason = reason, !.endedAt = now], LAMBDA s1 :
  Bind(storagePut(s1, "endedAt", s1.endedAt), LAMBDA s2 :
  Bind(callerRest(s2, rest), LAMBDA s3 :
  terminateSessionRest(s3, reason, message))))

\* terminateSession is called without await: it runs up to its first
\* await, then the caller runs what it has left, then it resumes.
terminateSession(s, reason, message, rest) ==
  IF s.terminationReason # Null THEN callerRest(s, rest)
  ELSE Bind([s EXCEPT !.terminationReason = reason, !.endedAt = now], LAMBDA s1 :
       Bind(storagePut(s1, "endedAt", s1.endedAt), LAMBDA s2 :
       Bind(callerRest(s2, rest), LAMBDA s3 :
       terminateSessionRest(s3, reason, message))))

\* a limit that is reached at MAX_RESPONSES already
checkResponseLimit_atLeast(s, rest) ==
  IF s.stats.responsesCreated >= MAX_RESPONSES
    THEN terminateSession(s, "response_limit", "Response limit reached", rest)
    ELSE callerRest(s, rest)

checkResponseLimit(s, rest) ==
  IF s.stats.responsesCreated > MAX_RESPONSES
    THEN terminateSession(s, "response_limit", "Response limit reached", rest)
    ELSE callerRest(s, rest)

\* a window that keeps the oldest entries
appendTranscript_keepFirst(s, role, text) ==
  IF Trim(text) = <<>> THEN s
  ELSE Bind(Append(s.transcript, [role |-> role, text |-> text, at |-> now]), LAMBDA t :
       [s EXCEPT !.transcript =
          IF Len(t) > MAX_TRANSCRIPT_ENTRIES
            THEN SubSeq(t, 1, MAX_TRANSCRIPT_ENTRIES)
            ELSE t])

\* push, then slice(-MAX_TRANSCRIPT_ENTRIES) when the array got longer
appendTranscript(s, role, text) ==
  IF Trim(text) = <<>> THEN s
  ELSE Bind(Append(s.transcript, [role |-> role, text |-> text, at |-> now]), LAMBDA t :
       [s EXCEPT !.transcript =
          IF Len(t) > MAX_TRANSCRIPT_ENTRIES
            THEN SubSeq(t, Len(t) - MAX_TRANSCRIPT_ENTRIES + 1, Len(t))
            ELSE t])

(***************************************************************************)
(* Tool calls and end of call.                                             *)
(***************************************************************************)
CountRun(s, name, args, callId) ==
  [s EXCEPT !.ran = Append(@, [name |-> name, args |-> args, callId |-> callId]),
            !.executed = IF callId \in CallIds
                           THEN [@ EXCEPT ![callId] = @ + 1] ELSE @]

\* try { args = JSON.parse(rawArgs) } catch { args = {} }
parseToolArgs(rawArgs) ==
  Bind(JsonParse(rawArgs), LAMBDA parsed :
  IF parsed.ok THEN parsed.v ELSE EmptyObject)

handleToolCall(s, name, rawArgs, callId) ==
  IF callId # Null /\ callId \in s.pendingToolCalls THEN s
  ELSE
  Bind(IF callId # Null THEN [s EXCEPT !.pendingToolCalls = @ \cup {callId}] ELSE s,
       LAMBDA s1 :
  Bind(parseToolArgs(rawArgs), LAMBDA args :
  Bind([s1 EXCEPT !.stats.toolCalls = @ + 1], LAMBDA s2 :
  Bind(runTool(name, args, buildToolContext(s2)), LAMBDA result :
  Bind(CountRun(s2, name, args, callId), LAMBDA s3 :
  Bind(forwardToOpenAI(s3, "conversation.item.create", "function_call_output", callId),
       LAMBDA s4 :
  Bind(forwardToOpenAI(s4, "response.create", "", Null), LAMBDA s5 :
  Bind([s5 EXCEPT !.toolResults = Append(@, ToolResultEntry(name, result, now))],
       LAMBDA s6 :
  Bind(storagePut(s6, "toolResults", s6.toolResults), LAMBDA s7 :
  Bind(IF s7.clientWs # 0
         THEN sendJson(s7, s7.clientWs, "server.tool_result", name, <<>>)
         ELSE s7, LAMBDA s8 :
  IF callId # Null THEN [s8 EXCEPT !.pendingToolCalls = @ \ {callId}] ELSE s8))))))))))

ensureScenarioLoaded(s) ==
  IF s.loadedScenario # Null THEN s
  ELSE IF s.session.scenarioId = Null THEN s
  ELSE IF s.session.scenarioId \in KnownScenarios
    THEN [s EXCEPT !.loadedScenario = s.session.scenarioId]
  ELSE s

\* a check of the log that never finds an entry
HasEntry_never(log, name) == FALSE

\* log.some(tr => tr.name === name)
HasEntry(log, name) == \E i \in DOMAIN log : log[i].name = name

\* the first matching entry in place of the last
LatestEntry_first(log, name) ==
  log[CHOOSE i \in DOMAIN log :
        log[i].name = name /\ \A j \in 1..(i - 1) : log[j].name # name]

\* [...log].reverse().find(tr => tr.name === name)
LatestEntry(log, name) ==
  log[CHOOSE i \in DOMAIN log :
        log[i].name = name /\ \A j \in (i + 1)..Len(log) : log[j].name # name]

TopicOf(scenarioId, default) ==
  ObjVal({<<TopicKey, StrVal(IF scenarioId # Null THEN <<scenarioId>> ELSE default)>>})

\* a synthesized entry put in front of the log
synthesize_prepend(s, name, args, ctx) ==
  Bind(runTool(name, args, ctx), LAMBDA result :
  Bind(CountRun(s, name, args, Null), LAMBDA a :
  Bind([a EXCEPT !.toolResults = <<ToolResultEntry(name, result, now)>> \o @,
                 !.synthesized[name] = @ + 1],
       LAMBDA b :
  storagePut(b, "toolResults", b.toolResults))))

\* the synthesized tool call of handleEndCall: run, append, persist
synthesize(s, name, args, ctx) ==
  Bind(runTool(name, args, ctx), LAMBDA result :
  Bind(CountRun(s, name, args, Null), LAMBDA a :
  Bind([a EXCEPT !.toolResults = Append(@, ToolResultEntry(name, result, now)),
                 !.synthesized[name] = @ + 1],
       LAMBDA b :
  storagePut(b, "toolResults", b.toolResults))))

handleEndCall(s, ws) ==
  Bind(ensureScenarioLoaded(s), LAMBDA s1 :
  Bind(buildToolContext(s1), LAMBDA ctx :
  Bind(IF HasEntry(s1.toolResults, "grade_lesson") THEN s1
       ELSE synthesize(s1, "grade_lesson",
                       TopicOf(s1.session.scenarioId, DefaultGradeTopic), ctx),
       LAMBDA s2 :
  Bind(IF s2.loadedScenario \in AutoQuizScenarios
          /\ ~HasEntry(s2.toolResults, "trigger_quiz")
         THEN synthesize(s2, "trigger_quiz",
                         TopicOf(s2.session.scenarioId, DefaultQuizTopic), ctx)
         ELSE s2, LAMBDA s3 :
  Bind(storagePut([s3 EXCEPT !.endedAt = now], "endedAt", now), LAMBDA s4 :
  Bind(storagePut(s4, "stats", s4.stats), LAMBDA s5 :
  Bind(storagePut(s5, "transcript", s5.transcript), LAMBDA s6 :
  Bind(IF HasEntry(s6.toolResults, "grade_lesson")
          /\ LatestEntry(s6.toolResults, "grade_lesson").result.score # NoScore
         THEN LatestEntry(s6.toolResults, "grade_lesson").result.score
         ELSE NoScore, LAMBDA gradeScore :
  Bind([s6 EXCEPT !.progress = [completed |-> TRUE,
                                completionScore |-> gradeScore,
                                completedAt |-> s6.endedAt]], LAMBDA s7 :
  Bind(storagePut(s7, "progress", s7.progress), LAMBDA s8 :
  Bind(IF s8.openaiWs # 0 THEN closeOpenAI(s8, s8.openaiWs) ELSE s8, LAMBDA s9 :
  Bind(sendJson([s9 EXCEPT !.openaiWs = 0], ws, "server.call_ended", "", <<>>),
       LAMBDA s10 :
  clearTimers(s10)))))))))))))

\* the two upstream events in the wrong order
handleClientText_swapped(s, text) ==
  IF s.openaiWs = 0
    THEN IF s.clientWs # 0 THEN sendError(s, s.clientWs, "Not connected to OpenAI")
                           ELSE s
    ELSE Bind(openaiSend(s, s.openaiWs, "response.create", "", Null), LAMBDA s1 :
         openaiSend(s1, s.openaiWs, "conversation.item.create", "message", Null))

handleClientText(s, text) ==
  IF s.openaiWs = 0
    THEN IF s.clientWs # 0 THEN sendError(s, s.clientWs, "Not connected to OpenAI")
                           ELSE s
    ELSE Bind(openaiSend(s, s.openaiWs, "conversation.item.create", "message", Null),
              LAMBDA s1 :
         openaiSend(s1, s.openaiWs, "response.create", "", Null))

cleanup(s) ==
  Bind([s EXCEPT !.clientWs = 0, !.pendingResponseText = <<>>,
                 !.pendingAudioTranscript = <<>>, !.pendingToolCalls = {}], LAMBDA s1 :
  Bind(IF s1.openaiWs # 0 THEN closeOpenAI(s1, s1.openaiWs) ELSE s1, LAMBDA s2 :
  clearTimers([s2 EXCEPT !.openaiWs = 0])))

NullResult == ToolResult(FALSE, Null, <<>>, NoScore, Null)

\* latest?.result ?? null
Latest(log, name) ==
  IF HasEntry(log, name) THEN LatestEntry(log, name).result ELSE NullResult

handleSummaryRequest(s) ==
  [sessionKey |-> IF s.session.sessionId = "" THEN Null ELSE s.session.sessionId,
   scenarioId |-> s.session.scenarioId,
   startedAt |-> s.startedAt, endedAt |-> s.endedAt,
   terminationReason |-> s.terminationReason, stats |-> s.stats,
   toolResults |-> s.toolResults, transcriptExcerpt |-> s.transcript,
   progress |-> s.progress,
   grade |-> Latest(s.toolResults, "grade_lesson"),
   quiz |-> Latest(s.toolResults, "trigger_quiz")]


(***************************************************************************)
(* Client messages.                                                        *)
(***************************************************************************)
Msg(data, type, scenarioId, hasText, text, hasAudio) ==
  [data |-> data, type |-> type, scenarioId |-> scenarioId, hasText |-> hasText,
   text |-> text, hasAudio |-> hasAudio]
TypedMsg(type) == Msg("object", type, Null, FALSE, <<>>, FALSE)

\* frames that are no message of the protocol
ViolationMessages ==
  {Msg(d, Null, Null, FALSE, <<>>, FALSE) : d \in {"binary", "malformed", "scalar", "object"}}
  \cup {TypedMsg(t) : t \in {"client.foo", "session.update", "conversation.item.create"}}
Hello(sc) == Msg("object", "client.hello", sc, FALSE, <<>>, FALSE)
HelloMessages == {Hello(sc) : sc \in {Null, "cafe", "nope"}}
TextMessages ==
  {Msg("object", "client.text", Null, FALSE, <<>>, FALSE)}
  \cup {Msg("object", "client.text", Null, TRUE, t, FALSE) : t \in {<<>>, <<" ">>, <<"H">>}}
AudioMessages ==
  {Msg("object", "client.audio.append", Null, FALSE, <<>>, a) : a \in BOOLEAN}
  \cup {TypedMsg("client.audio.commit")}
ResponseMessages == {TypedMsg("client.response.create"), TypedMsg("client.response.cancel")}
EchoMessages == {TypedMsg("client.ping"), TypedMsg("client.event")}
EndCallMessages == {TypedMsg("client.end_call")}
ClientMessages == ViolationMessages \cup HelloMessages \cup TextMessages \cup AudioMessages
                  \cup ResponseMessages \cup EchoMessages \cup EndCallMessages

\* connectToOpenAI up to the await of fetch()
connectToOpenAI(s, ws, scenarioId) ==
  Bind(IF scenarioId = Null THEN s
       ELSE IF scenarioId \in KnownScenarios
         THEN [s EXCEPT !.loadedScenario = scenarioId]
       ELSE sendError(s, ws, "Failed to load scenario"), LAMBDA s1 :
  [s1 EXCEPT !.connecting =
     Append(@, [ws |-> ws,
                scenario |-> IF scenarioId \in KnownScenarios THEN scenarioId
                             ELSE Null])])

handleMessage(s, ws, msg) ==
  IF msg.data = "binary" THEN sendError(s, ws, "Binary messages not supported")
  ELSE IF msg.data = "malformed" THEN sendError(s, ws, "Invalid JSON")
  ELSE IF msg.data # "object" \/ msg.type = Null
    THEN sendError(s, ws, "Missing 'type' field")
  ELSE CASE msg.type = "client.hello" ->
              Bind(IF msg.scenarioId # Null THEN msg.scenarioId
                   ELSE s.session.scenarioId, LAMBDA scenarioId :
              Bind([s EXCEPT !.session.scenarioId = scenarioId], LAMBDA s1 :
              connectToOpenAI(s1, ws, scenarioId)))
         [] msg.type = "client.ping" -> sendJson(s, ws, "server.pong", "", <<>>)
         [] msg.type = "client.event" -> sendJson(s, ws, "server.echo", "", <<>>)
         [] msg.type = "client.text" ->
              IF ~msg.hasText \/ Trim(msg.text) = <<>>
                THEN sendError(s, ws, "client.text requires a non-empty 'text' field")
                ELSE handleClientText(s, msg.text)
         [] msg.type = "client.audio.append" ->
              IF ~msg.hasAudio
                THEN sendError(s, ws, "client.audio.append requires a base64 'audio' field")
                ELSE Bind([s EXCEPT !.stats.audioChunksIn = @ + 1], LAMBDA s1 :
                     forwardToOpenAI(s1, "input_audio_buffer.append", "", Null))
         [] msg.type = "client.audio.commit" ->
              forwardToOpenAI(s, "input_audio_buffer.commit", "", Null)
         [] msg.type = "client.response.create" ->
              Bind([s EXCEPT !.stats.responsesCreated = @ + 1], LAMBDA s1 :
              checkResponseLimit(s1, "forward"))
         [] msg.type = "client.response.cancel" ->
              forwardToOpenAI(s, "response.cancel", "", Null)
         [] msg.type = "client.end_call" -> handleEndCall(s, ws)
         [] OTHER -> sendError(s, ws, "Unknown message type")

(***************************************************************************)
(* Upstream events.                                                        *)
(***************************************************************************)
Evt(type, has, str, callId, name, item) ==
  [type |-> type, has |-> has, str |-> str, callId |-> callId, name |-> name,
   item |-> item]
PlainEvt(type) == Evt(type, FALSE, <<>>, Null, "", "")

ArgsOk == <<"{", Quote, "t", "o", "p", "i", "c", Quote, ":", Quote, "c", Quote, "}">>
ArgsBad == <<"{", Quote, "t", "o">>
EmptyObjectText == <<"{", "}">>

TextEvents ==
  {Evt(t, h, IF h THEN <<"a">> ELSE <<>>, Null, "", "") :
     t \in {"response.text.delta", "response.audio_transcript.delta"}, h \in BOOLEAN}
  \cup {Evt(t, FALSE, <<>>, Null, "", "") :
          t \in {"response.text.done", "response.audio_transcript.done"}}
  \cup {Evt(t, TRUE, x, Null, "", "") :
          t \in {"response.text.done", "response.audio_transcript.done"},
          x \in {<<>>, <<"z">>}}
LifecycleEvents == {PlainEvt("response.created"), PlainEvt("response.done")}
RelayedEvents ==
  {PlainEvt(t) : t \in {"error", "response.audio.done",
                        "conversation.item.input_audio_transcription.failed",
                        "input_audio_buffer.speech_started",
                        "input_audio_buffer.speech_stopped",
                        "session.created", "rate_limits.updated"}}
  \cup {Evt("", FALSE, <<>>, Null, "", "")}
  \cup {Evt("response.audio.delta", h, IF h THEN <<"a">> ELSE <<>>, Null, "", "") :
          h \in BOOLEAN}
TranscriptionEvents ==
  {Evt("conversation.item.input_audio_transcription.completed", h,
       IF h THEN <<"u">> ELSE <<>>, Null, "", "") : h \in BOOLEAN}
ToolEvents ==
  {Evt("response.function_call_arguments.done", a # <<>>, a, c, n, "") :
     a \in {<<>>, ArgsOk, ArgsBad}, c \in CallIds \cup {Null},
     n \in {"grade_lesson", "trigger_quiz", ""}}
  \cup {Evt("response.output_item.done", a # <<>>, a, c, n, "function_call") :
     a \in {<<>>, ArgsOk}, c \in CallIds \cup {Null},
     n \in {"grade_lesson", "trigger_quiz", ""}}
  \cup {Evt("response.output_item.done", FALSE, <<>>, Null, "", "message")}
UpstreamEvents == TextEvents \cup LifecycleEvents \cup RelayedEvents
                  \cup TranscriptionEvents \cup ToolEvents

OPENAI_LOG_EVENTS == FALSE

toClientIfAny(s, type, info, text) ==
  IF s.clientWs # 0 THEN sendJson(s, s.clientWs, type, info, text) ELSE s

\* a completed text that ignores the text of the done event
fullTextOf_accumulated(evt, pending) == pending

\* typeof msg.text === "string" ? msg.text : this.pendingResponseText
fullTextOf(evt, pending) == IF evt.has THEN evt.str ELSE pending

\* the switch of handleOpenAIMessage; delta is the text the event carries
onOpenAIEvent(s, evt, delta) ==
  CASE evt.type = "response.text.delta" ->
         Bind([s EXCEPT !.pendingResponseText = @ \o delta], LAMBDA s1 :
         toClientIfAny(s1, "server.text.delta", "ai", delta))
    [] evt.type = "response.text.done" ->
         Bind(fullTextOf(evt, s.pendingResponseText), LAMBDA fullText :
         Bind(toClientIfAny(s, "server.text.completed", "ai", fullText), LAMBDA s1 :
         Bind(IF fullText # <<>> THEN appendTranscript(s1, "ai", fullText) ELSE s1,
              LAMBDA s2 :
         [s2 EXCEPT !.pendingResponseText = <<>>])))
    [] evt.type = "response.audio_transcript.delta" ->
         Bind([s EXCEPT !.pendingAudioTranscript = @ \o delta], LAMBDA s1 :
         toClientIfAny(s1, "server.text.delta", "ai", delta))
    [] evt.type = "response.audio_transcript.done" ->
         Bind(fullTextOf(evt, s.pendingAudioTranscript), LAMBDA full :
         Bind(toClientIfAny(s, "server.text.completed", "ai", full), LAMBDA s1 :
         Bind(IF full # <<>> THEN appendTranscript(s1, "ai", full) ELSE s1, LAMBDA s2 :
         [s2 EXCEPT !.pendingAudioTranscript = <<>>])))
    [] evt.type = "response.created" ->
         Bind([s EXCEPT !.pendingResponseText = <<>>,
                        !.pendingAudioTranscript = <<>>,
                        !.stats.responsesCreated = @ + 1], LAMBDA s1 :
         checkResponseLimit(s1, "return"))
    [] evt.type = "response.done" ->
         toClientIfAny(s, "server.response.done", "", <<>>)
    [] evt.type = "error" ->
         toClientIfAny(s, "server.error", "OpenAI", <<>>)
    [] evt.type = "response.audio.delta" ->
         IF s.clientWs # 0 /\ delta # <<>>
           THEN Bind([s EXCEPT !.stats.audioChunksOut = @ + 1], LAMBDA s1 :
                sendJson(s1, s.clientWs, "server.audio.delta", "", delta))
           ELSE s
    [] evt.type = "response.audio.done" ->
         toClientIfAny(s, "server.audio.done", "", <<>>)
    [] evt.type = "conversation.item.input_audio_transcription.completed" ->
         IF delta # <<>>
           THEN Bind(toClientIfAny(s, "server.transcription.completed", "user", delta),
                     LAMBDA s1 :
                appendTranscript(s1, "user", delta))
           ELSE s
    [] evt.type = "conversation.item.input_audio_transcription.failed" ->
         toClientIfAny(s, "server.error", "Audio transcription failed", <<>>)
    [] evt.type = "input_audio_buffer.speech_started" ->
         toClientIfAny(s, "server.user_speech_started", "", <<>>)
    [] evt.type = "input_audio_buffer.speech_stopped" ->
         toClientIfAny(s, "server.user_speech_stopped", "", <<>>)
    [] evt.type = "response.function_call_arguments.done" ->
         IF evt.name # ""
           THEN handleToolCall(s, evt.name,
                               IF evt.has THEN evt.str ELSE EmptyObjectText, evt.callId)
           ELSE s
    [] evt.type = "response.output_item.done" ->
         IF evt.item = "function_call"
           THEN IF evt.callId # Null /\ evt.callId \in s.pendingToolCalls THEN s
                ELSE IF evt.name # ""
                  THEN handleToolCall(s, evt.name,
                                      IF evt.has THEN evt.str ELSE EmptyObjectText,
                                      evt.callId)
                ELSE s
           ELSE s
    [] OTHER -> s

handleOpenAIMessage(s0, evt) ==
  IF evt.type = "" THEN s0
  ELSE Bind(IF OPENAI_LOG_EVENTS
              THEN toClientIfAny(s0, "debug.openai", evt.type, <<>>)
              ELSE s0, LAMBDA s :
       onOpenAIEvent(s, evt, IF evt.has THEN evt.str ELSE <<>>))

(***************************************************************************)
(* Actions of the session object.                                          *)
(***************************************************************************)
SessionKey == "k1"
MaxResponsesSeen == MAX_RESPONSES + 2

FreeConn(c) == clientSock[c] = "none" /\ \A d \in Conns : d < c => clientSock[d] # "none"
FreeUpstream(u) ==
  openaiSock[u] = "none" /\ \A d \in Upstreams : d < u => openaiSock[d] # "none"

startGuardrailTimer(s, t) == [s EXCEPT !.timers = @ \cup {t}, !.guardrailTimer = t]

\* fetch() of a WebSocket upgrade request; c is the accepted server socket
fetch(s, c, scenarioId) ==
  Bind([s EXCEPT !.session = [sessionId |-> SessionKey, scenarioId |-> scenarioId],
                 !.startedAt = now], LAMBDA s1 :
  Bind(IF scenarioId # Null THEN storagePut(s1, "scenarioId", scenarioId) ELSE s1,
       LAMBDA s2 :
  Bind(storagePut(s2, "startedAt", s2.startedAt), LAMBDA s3 :
  Bind([s3 EXCEPT !.clientSock[c] = "open", !.clientWs = c], LAMBDA s4 :
  startGuardrailTimer(s4, c)))))

FetchIn(Scenarios, maxConns) ==
  \E c \in 1..maxConns, sc \in Scenarios, originAllowed \in BOOLEAN :
    /\ FreeConn(c)
    /\ IF originAllowed
         THEN \E t \in {fetch(Cur, c, sc)} : Commit(t, "fetch", c, NoMsg, NoEvent)
         ELSE Commit(Cur, "forbidden", 0, NoMsg, NoEvent)
    /\ UNCHANGED now

Fetch == FetchIn({Null, "taxi"}, MaxConns)

\* a summary request that falls through to the upgrade path
fetchSummary_upgrade(s) ==
  [state |-> storagePut([s EXCEPT !.startedAt = now], "startedAt", now),
   response |-> handleSummaryRequest(s)]

\* fetch() of /internal/summary: returns before anything is assigned
fetchSummary(s) ==
  [state |-> s,
   response |-> handleSummaryRequest(s)]

SummaryRequest ==
  /\ \E r \in {fetchSummary(Cur)} : Commit(r.state, "summary", 0, NoMsg, NoEvent)
  /\ UNCHANGED now

MsgAllowed(m) ==
  /\ m.type = "client.hello" => Len(connecting) < MaxConnecting
  /\ m.type = "client.audio.append" /\ m.hasAudio => stats.audioChunksIn < MaxAudio
  /\ m.type = "client.response.create" => stats.responsesCreated < MaxResponsesSeen
  /\ m.type = "client.end_call" =>
       \A c \in Conns : Len(handleEndCall(Cur, c).toolResults) <= MaxToolResults

ClientMessageIn(Msgs) ==
  \E c \in Conns, m \in Msgs :
    /\ clientSock[c] = "open"
    /\ MsgAllowed(m)
    /\ \E t \in {handleMessage(Cur, c, m)} : Commit(t, "message", c, m, NoEvent)
    /\ UNCHANGED now

ClientMessage == ClientMessageIn(ClientMessages)

ClientClose ==
  \E c \in Conns :
    /\ clientSock[c] \in {"open", "closing"}
    /\ \E t \in {cleanup([Cur EXCEPT !.clientSock[c] = "closed"])} :
         Commit([t EXCEPT !.heard = NoneHeard], "close", c, NoMsg, NoEvent)
    /\ UNCHANGED now

ClientError ==
  \E c \in Conns :
    /\ clientSock[c] = "open"
    /\ \E t \in {cleanup([Cur EXCEPT !.clientSock[c] = "closing"])} :
         Commit([t EXCEPT !.heard = NoneHeard], "error", c, NoMsg, NoEvent)
    /\ UNCHANGED now

RemoveAt(q, i) == SubSeq(q, 1, i - 1) \o SubSeq(q, i + 1, Len(q))

\* a failure that ends the client connection, as the relay does
connectToOpenAIDone_closeAll(s, ws, outcome, u) ==
  IF outcome \in {"nosocket", "throws"}
    THEN Bind(sendError(s, ws, "OpenAI connection failed"), LAMBDA s1 :
         closeClient(s1, ws))
  ELSE Bind([s EXCEPT !.openaiSock[u] = "open", !.openaiWs = u], LAMBDA s1 :
       Bind(openaiSend(s1, u, "session.update", "", Null), LAMBDA s2 :
       sendJson(s2, ws, "server.hello", "openai", <<>>)))

\* a catch block that reports the failure and sends no hello
connectToOpenAIDone_noHello(s, ws, outcome, u) ==
  IF outcome = "nosocket"
    THEN Bind(sendError(s, ws, "Failed to establish WebSocket to OpenAI"), LAMBDA s1 :
         sendJson(s1, ws, "server.hello", "degraded", <<>>))
  ELSE IF outcome = "throws"
    THEN sendError(s, ws, "OpenAI connection failed")
  ELSE Bind([s EXCEPT !.openaiSock[u] = "open", !.openaiWs = u], LAMBDA s1 :
       Bind(openaiSend(s1, u, "session.update", "", Null), LAMBDA s2 :
       sendJson(s2, ws, "server.hello", "openai", <<>>)))

\* connectToOpenAI from the return of fetch() on
connectToOpenAIDone(s, ws, outcome, u) ==
  IF outcome = "nosocket"
    THEN Bind(sendError(s, ws, "Failed to establish WebSocket to OpenAI"), LAMBDA s1 :
         sendJson(s1, ws, "server.hello", "degraded", <<>>))
  ELSE IF outcome = "throws"
    THEN Bind(sendError(s, ws, "OpenAI connection failed"), LAMBDA s1 :
         sendJson(s1, ws, "server.hello", "degraded", <<>>))
  ELSE Bind([s EXCEPT !.openaiSock[u] = "open", !.openaiWs = u], LAMBDA s1 :
       Bind(openaiSend(s1, u, "session.update", "", Null), LAMBDA s2 :
       sendJson(s2, ws, "server.hello", "openai", <<>>)))

\* the fetch() awaited by the i-th pending connectToOpenAI call settles
ConnectDoneAt(i, maxUpstream) ==
  \E outcome \in {"ok", "nosocket", "throws"}, u \in 1..maxUpstream :
    /\ i \in DOMAIN connecting
    /\ IF outcome = "ok" THEN FreeUpstream(u) ELSE u = 1
    /\ \E t \in {connectToOpenAIDone([Cur EXCEPT !.connecting = RemoveAt(@, i)],
                                     connecting[i].ws, outcome, u)} :
         Commit(t, outcome, connecting[i].ws, NoMsg, NoEvent)
    /\ UNCHANGED now

ConnectDoneIn(maxUpstream) ==
  \E i \in DOMAIN connecting : ConnectDoneAt(i, maxUpstream)

ConnectDone == ConnectDoneIn(MaxUpstream)

EvtAllowed(e) ==
  /\ e.type = "response.text.delta" => Len(pendingResponseText) < MaxPending
  /\ e.type = "response.audio_transcript.delta" => Len(pendingAudioTranscript) < MaxPending
  /\ e.type \in {"response.text.done", "response.audio_transcript.done",
                 "conversation.item.input_audio_transcription.completed"}
       => Len(transcript) < MaxTranscript
  /\ e.type = "response.created" => stats.responsesCreated < MaxResponsesSeen
  /\ e.type = "response.audio.delta" => stats.audioChunksOut < MaxAudio
  /\ e.type \in {"response.function_call_arguments.done", "response.output_item.done"}
       => Len(toolResults) < MaxToolResults

\* the deltas received since the last reset, after event e
Heard(h, e) ==
  CASE e.type = "response.text.delta" ->
         [h EXCEPT !.text = @ \o (IF e.has THEN e.str ELSE <<>>)]
    [] e.type = "response.audio_transcript.delta" ->
         [h EXCEPT !.audio = @ \o (IF e.has THEN e.str ELSE <<>>)]
    [] e.type = "response.text.done" -> [h EXCEPT !.text = <<>>]
    [] e.type = "response.audio_transcript.done" -> [h EXCEPT !.audio = <<>>]
    [] e.type = "response.created" -> NoneHeard
    [] OTHER -> h

UpstreamMessageIn(Evts) ==
  \E u \in Upstreams, e \in Evts :
    /\ openaiSock[u] = "open"
    /\ EvtAllowed(e)
    /\ \E t \in {handleOpenAIMessage(Cur, e)} :
         Commit([t EXCEPT !.heard = Heard(heard, e)], "upstream", u, NoMsg, e)
    /\ UNCHANGED now

UpstreamMessage == UpstreamMessageIn(UpstreamEvents)

\* the close and error listeners of an upstream socket
onOpenAIGone(s, info) ==
  Bind([s EXCEPT !.openaiWs = 0], LAMBDA s1 :
  toClientIfAny(s1, "server.error", info, <<>>))

UpstreamClose ==
  \E u \in Upstreams :
    /\ openaiSock[u] \in {"open", "closing"}
    /\ \E t \in {onOpenAIGone([Cur EXCEPT !.openaiSock[u] = "closed"],
                              "OpenAI connection closed")} :
         Commit(t, "upstream.close", u, NoMsg, NoEvent)
    /\ UNCHANGED now

UpstreamError ==
  \E u \in Upstreams :
    /\ openaiSock[u] = "open"
    /\ \E t \in {onOpenAIGone([Cur EXCEPT !.openaiSock[u] = "closing"],
                              "OpenAI connection error")} :
         Commit(t, "upstream.error", u, NoMsg, NoEvent)
    /\ UNCHANGED now

\* the callback of the guardrail interval
guardrailCallback(s) ==
  IF s.startedAt = NoTime THEN s
  ELSE IF now - s.startedAt > MAX_SESSION_SECONDS
    THEN terminateSession(s, "time_limit", "Session time limit reached", "return")
  ELSE s

GuardrailTick ==
  \E t \in timers :
    /\ \E r \in {guardrailCallback(Cur)} : Commit(r, "timer", t, NoMsg, NoEvent)
    /\ UNCHANGED now

Tick ==
  /\ now < MaxTime
  /\ now' = now + 1
  /\ UNCHANGED <<session, clientWs, openaiWs, clientSock, openaiSock,
                 pendingResponseText, pendingAudioTranscript, pendingToolCalls,
                 toolResults, startedAt, endedAt, terminationReason,
                 guardrailTimer, timers, stats, transcript, progress,
                 loadedScenario, storage, connecting, executed, synthesized,
                 transcribed, heard, callEnded>>
  /\ step' = [IdleStep EXCEPT !.op = "tick"]
  /\ UNCHANGED rvars
  /\ UNCHANGED avars

\* the object is evicted and constructed again: memory is lost, the
\* constructor hydrates from storage
constructor(s) ==
  [s EXCEPT !.session = [sessionId |-> "", scenarioId |-> s.storage.scenarioId],
            !.clientWs = 0, !.openaiWs = 0,
            !.pendingResponseText = <<>>, !.pendingAudioTranscript = <<>>,
            !.pendingToolCalls = {},
            !.toolResults = s.storage.toolResults,
            !.startedAt = s.storage.startedAt,
            !.endedAt = s.storage.endedAt,
            !.terminationReason = s.storage.terminationReason,
            !.guardrailTimer = 0, !.timers = {},
            !.stats = s.storage.stats,
            !.transcript = s.storage.transcript,
            !.progress = s.storage.progress,
            !.loadedScenario = Null]

Construct ==
  /\ \A c \in Conns : clientSock[c] \in {"none", "closed"}
  /\ \A u \in Upstreams : openaiSock[u] \in {"none", "closed"}
  /\ connecting = <<>>
  /\ \E c \in Conns : clientSock[c] = "closed"
  /\ \E t \in {constructor(Cur)} :
       Commit([t EXCEPT !.heard = NoneHeard], "construct", 0, NoMsg, NoEvent)
  /\ UNCHANGED now

Init ==
  /\ now = 0
  /\ session = [sessionId |-> "", scenarioId |-> Null]
  /\ clientWs = 0
  /\ openaiWs = 0
  /\ clientSock = [c \in Conns |-> "none"]
  /\ openaiSock = [u \in Upstreams |-> "none"]
  /\ pendingResponseText = <<>>
  /\ pendingAudioTranscript = <<>>
  /\ pendingToolCalls = {}
  /\ toolResults = <<>>
  /\ startedAt = NoTime
  /\ endedAt = NoTime
  /\ terminationReason = Null
  /\ guardrailTimer = 0
  /\ timers = {}
  /\ stats = ZeroStats
  /\ transcript = <<>>
  /\ progress = NoProgress
  /\ loadedScenario = Null
  /\ storage = EmptyStorage
  /\ connecting = <<>>
  /\ executed = [c \in CallIds |-> 0]
  /\ synthesized = [n \in ToolNames |-> 0]
  /\ transcribed = <<>>
  /\ heard = NoneHeard
  /\ callEnded = [c \in Conns |-> 0]
  /\ step = IdleStep
  /\ scenario = Null
  /\ clientSocket = 0
  /\ upstreamSocket = 0
  /\ relayClientSock = [c \in RConns |-> "none"]
  /\ relayUpstreamSock = [u \in RUps |-> "none"]
  /\ toolArgsByCallId = [c \in CallIds |-> NoBuffer]
  /\ upstreamFetch = <<>>
  /\ deltaLog = [c \in CallIds |-> <<>>]
  /\ firstSent = [u \in RUps |-> Null]
  /\ rstep = RelayIdle
  /\ routed = NoRouted


Next ==
  \/ Fetch
  \/ SummaryRequest
  \/ ClientMessage
  \/ ClientClose
  \/ ClientError
  \/ ConnectDone
  \/ UpstreamMessage
  \/ UpstreamClose
  \/ UpstreamError
  \/ GuardrailTick
  \/ Tick
  \/ Construct

Spec == Init /\ [][Next]_vars


(***************************************************************************)
(* The relay of workers/realtime: whitelist and argument buffers.          *)
(***************************************************************************)
RCur == [scenario |-> scenario, clientSocket |-> clientSocket,
         upstreamSocket |-> upstreamSocket, relayClientSock |-> relayClientSock,
         relayUpstreamSock |-> relayUpstreamSock,
         toolArgsByCallId |-> toolArgsByCallId, upstreamFetch |-> upstreamFetch,
         toClient |-> <<>>, toUpstream |-> <<>>, ran |-> <<>>, closed |-> {}]

\* the first event of each upstream socket, once one was sent on it
FirstOn(first, sent) ==
  [u \in DOMAIN first |->
     LET on == SelectSeq(sent, LAMBDA e : e.ws = u)
     IN IF first[u] # Null \/ on = <<>> THEN first[u] ELSE on[1].type]

RCommit(s, op, ws, frame) ==
  /\ scenario' = s.scenario
  /\ clientSocket' = s.clientSocket
  /\ upstreamSocket' = s.upstreamSocket
  /\ relayClientSock' = s.relayClientSock
  /\ relayUpstreamSock' = s.relayUpstreamSock
  /\ toolArgsByCallId' = s.toolArgsByCallId
  /\ upstreamFetch' = s.upstreamFetch
  /\ firstSent' = FirstOn(firstSent, s.toUpstream)
  /\ rstep' = [op |-> op, ws |-> ws, frame |-> frame, toClient |-> s.toClient,
               toUpstream |-> s.toUpstream, ran |-> s.ran, closed |-> s.closed]
  /\ UNCHANGED wvars
  /\ UNCHANGED avars

sendUpstream(s, type, item, callId) ==
  IF s.upstreamSocket = 0 THEN s
  ELSE [s EXCEPT !.toUpstream =
          Append(@, OpenAIEvent(s.upstreamSocket, type, item, callId))]

sendClientRaw(s, type) ==
  IF s.clientSocket = 0 THEN s
  ELSE [s EXCEPT !.toClient = Append(@, [ws |-> s.clientSocket, type |-> type])]

closeAll(s) ==
  LET s1 == IF s.clientSocket # 0 /\ s.relayClientSock[s.clientSocket] = "open"
              THEN [s EXCEPT !.relayClientSock[s.clientSocket] = "closing",
                             !.closed = @ \cup {<<"client", s.clientSocket>>}]
              ELSE s
      s2 == IF s1.upstreamSocket # 0 /\ s1.relayUpstreamSock[s1.upstreamSocket] = "open"
              THEN [s1 EXCEPT !.relayUpstreamSock[s1.upstreamSocket] = "closing",
                              !.closed = @ \cup {<<"upstream", s1.upstreamSocket>>}]
              ELSE s1
  IN [s2 EXCEPT !.clientSocket = 0, !.upstreamSocket = 0]

\* connectUpstream up to the await of fetch()
connectUpstream(s, ws) ==
  IF s.clientSocket = 0 THEN s
  ELSE [s EXCEPT !.upstreamFetch = Append(@, [ws |-> ws, phase |-> "fetch"])]

\* connectUpstream from the return of fetch() on; a response that is no
\* upgrade is read with a second await
connectUpstreamDone(s, i, outcome, u) ==
  LET rest == [s EXCEPT !.upstreamFetch = RemoveAt(@, i)]
  IN IF s.upstreamFetch[i].phase = "text"
       THEN closeAll(sendClientRaw(rest, "error"))
     ELSE IF outcome = "rejected"
       THEN [s EXCEPT !.upstreamFetch[i].phase = "text"]
     ELSE IF outcome \in {"nosocket", "throws"}
       THEN closeAll(sendClientRaw(rest, "error"))
     ELSE [rest EXCEPT !.relayUpstreamSock[u] = "open", !.upstreamSocket = u]

onUpstreamOpen(s) ==
  IF s.upstreamSocket = 0 THEN s
  ELSE sendUpstream(sendUpstream(sendUpstream(s, "session.update", "", Null),
                                 "conversation.item.create", "message", Null),
                    "response.create", "", Null)

Frame(data, type, callId, name, delta) ==
  [data |-> data, type |-> type, callId |-> callId, name |-> name, delta |-> delta]

RelayClientFrames ==
  {Frame(d, Null, Null, "", <<>>) : d \in {"malformed", "scalar", "object"}}
  \cup {Frame("object", t, Null, "", <<>>) :
          t \in CLIENT_EVENT_WHITELIST
                \cup {"session.update", "conversation.item.create", "client.foo"}}

\* a relay without the whitelist check
onClientMessage_forwardAll(s, frame) ==
  IF s.upstreamSocket = 0 THEN s
  ELSE IF frame.data # "object" THEN s
  ELSE IF frame.type = Null THEN s
  ELSE sendUpstream(s, frame.type, "", Null)

onClientMessage(s, frame) ==
  IF s.upstreamSocket = 0 THEN s
  ELSE IF frame.data # "object" THEN s
  ELSE IF frame.type = Null THEN s
  ELSE IF frame.type \notin CLIENT_EVENT_WHITELIST THEN sendClientRaw(s, "debug.warning")
  ELSE sendUpstream(s, frame.type, "", Null)

Frag1 == <<"{", Quote, "t", "o">>
Frag2 == <<"p", "i", "c", Quote, ":", Quote, "c", Quote, "}">>
Fragments == {Frag1, Frag2, <<"1">>, <<" ">>}

RelayUpstreamFrames ==
  {Frame("malformed", Null, Null, "", <<>>), Frame("object", Null, Null, "", <<>>),
   Frame("object", "response.created", Null, "", <<>>),
   Frame("object", "response.function_call_arguments.delta", Null, "", Frag2),
   Frame("object", "response.function_call_arguments.delta", "c1", "", <<>>),
   Frame("object", "response.function_call_arguments.delta", "c1", "grade_lesson", Frag1),
   Frame("object", "response.function_call_arguments.delta", "c2", "", Frag2)}
  \cup {Frame("object", "response.function_call_arguments.delta", "c1", "", d) :
          d \in Fragments}
  \cup {Frame("object", "response.function_call_arguments.done", c, n, <<>>) :
          c \in CallIds \cup {Null},
          n \in {"", "grade_lesson", "trigger_quiz", "other"}}

\* a buffer that grows at the wrong end
onToolArgsDelta_prepend(s, frame) ==
  IF frame.callId = Null THEN s
  ELSE LET existing == IF s.toolArgsByCallId[frame.callId].has
                         THEN s.toolArgsByCallId[frame.callId]
                         ELSE [NoBuffer EXCEPT !.has = TRUE]
           appended == [existing EXCEPT !.argsText = frame.delta \o @]
           named == IF frame.name # "" THEN [appended EXCEPT !.name = frame.name]
                    ELSE appended
       IN [s EXCEPT !.toolArgsByCallId[frame.callId] = named]

onToolArgsDelta(s, frame) ==
  IF frame.callId = Null THEN s
  ELSE LET existing == IF s.toolArgsByCallId[frame.callId].has
                         THEN s.toolArgsByCallId[frame.callId]
                         ELSE [NoBuffer EXCEPT !.has = TRUE]
           appended == [existing EXCEPT !.argsText = @ \o frame.delta]
           named == IF frame.name # "" THEN [appended EXCEPT !.name = frame.name]
                    ELSE appended
       IN [s EXCEPT !.toolArgsByCallId[frame.callId] = named]

RelayRun(name, args, parseError, invoked, callId) ==
  [name |-> name, args |-> args, parseError |-> parseError, invoked |-> invoked,
   callId |-> callId]

\* runToolSafe: the tools are stubs; invoked tells whether a tool was run
runToolSafe(s, name, args, parseError, callId) ==
  [s EXCEPT !.ran = Append(@, RelayRun(name, args, parseError,
                                       parseError = "" /\ name \in {"grade_lesson", "trigger_quiz"},
                                       callId))]

onToolArgsDone(s, frame) ==
  IF frame.callId = Null \/ frame.name = "" THEN s
  ELSE LET buf == s.toolArgsByCallId[frame.callId]
           argsText == IF buf.has THEN buf.argsText ELSE <<>>
           parsed == JsonParse(argsText)
           blank == Trim(argsText) = <<>>
           args == IF ~blank /\ parsed.ok /\ isObject(parsed.v) THEN parsed.v
                   ELSE EmptyObject
           parseError == IF blank \/ (parsed.ok /\ isObject(parsed.v)) THEN ""
                         ELSE IF parsed.ok THEN "Tool args must be an object"
                         ELSE "SyntaxError"
           s1 == runToolSafe(s, frame.name, args, parseError, frame.callId)
           s2 == sendUpstream(s1, "conversation.item.create", "function_call_output",
                              frame.callId)
           s3 == sendUpstream(s2, "response.create", "", Null)
       IN [s3 EXCEPT !.toolArgsByCallId[frame.callId] = NoBuffer]

onUpstreamMessage(s, frame) ==
  LET s1 == sendClientRaw(s, IF frame.type = Null THEN "" ELSE frame.type)
  IN IF frame.data # "object" \/ frame.type = Null THEN s1
     ELSE IF frame.type = "response.function_call_arguments.delta"
       THEN onToolArgsDelta(s1, frame)
     ELSE IF frame.type = "response.function_call_arguments.done"
       THEN onToolArgsDone(s1, frame)
     ELSE s1

RFreeConn(c) ==
  relayClientSock[c] = "none" /\ \A d \in RConns : d < c => relayClientSock[d] # "none"
RFreeUpstream(u) ==
  relayUpstreamSock[u] = "none"
  /\ \A d \in RUps : d < u => relayUpstreamSock[d] # "none"

relayFetch(s, c, request) ==
  IF request # "ok" THEN s
  ELSE connectUpstream([s EXCEPT !.scenario = "cafe", !.relayClientSock[c] = "open",
                                 !.clientSocket = c], c)

RelayFetch ==
  \E c \in 1..RelayConns, request \in {"noupgrade", "noscenario", "unknown", "ok"} :
    /\ RFreeConn(c)
    /\ Len(upstreamFetch) < MaxConnecting
    /\ RCommit(relayFetch(RCur, c, request), request, c, NoFrame)
    /\ UNCHANGED deltaLog

RelayConnectDone ==
  \E i \in DOMAIN upstreamFetch, outcome \in {"ok", "rejected", "nosocket", "throws"},
     u \in 1..RelayUpstreams :
    /\ IF outcome = "ok" /\ upstreamFetch[i].phase = "fetch"
         THEN RFreeUpstream(u) ELSE u = 1
    /\ upstreamFetch[i].phase = "text" => outcome = "rejected"
    /\ RCommit(connectUpstreamDone(RCur, i, outcome, u), "connect." \o outcome,
               upstreamFetch[i].ws, NoFrame)
    /\ UNCHANGED deltaLog

RelayUpstreamOpen ==
  \E u \in RUps :
    /\ relayUpstreamSock[u] = "open"
    /\ rstep.op = "connect.ok"
    /\ RCommit(onUpstreamOpen(RCur), "upstream.open", u, NoFrame)
    /\ UNCHANGED deltaLog

RelayClientMessage ==
  \E c \in RConns, f \in RelayClientFrames :
    /\ relayClientSock[c] = "open"
    /\ RCommit(onClientMessage(RCur, f), "message", c, f)
    /\ UNCHANGED deltaLog

RelayUpstreamMessage ==
  \E u \in RUps, f \in RelayUpstreamFrames :
    /\ relayUpstreamSock[u] = "open"
    /\ f.type = "response.function_call_arguments.delta" /\ f.callId # Null
         => Len(deltaLog[f.callId]) < MaxDeltas
    /\ RCommit(onUpstreamMessage(RCur, f), "upstream", u, f)
    /\ deltaLog' =
         IF f.type = "response.function_call_arguments.delta" /\ f.callId # Null
           THEN [deltaLog EXCEPT ![f.callId] = Append(@, f.delta)]
         ELSE IF f.type = "response.function_call_arguments.done"
                 /\ f.callId # Null /\ f.name # ""
           THEN [deltaLog EXCEPT ![f.callId] = <<>>]
         ELSE deltaLog

RelayClientClose ==
  \E c \in RConns :
    /\ relayClientSock[c] \in {"open", "closing"}
    /\ RCommit(closeAll([RCur EXCEPT !.relayClientSock[c] = "closed"]),
               "close", c, NoFrame)
    /\ UNCHANGED deltaLog

RelayUpstreamClose ==
  \E u \in RUps :
    /\ relayUpstreamSock[u] \in {"open", "closing"}
    /\ RCommit(closeAll([RCur EXCEPT !.relayUpstreamSock[u] = "closed"]),
               "upstream.close", u, NoFrame)
    /\ UNCHANGED deltaLog

NextRelay ==
  \/ RelayFetch
  \/ RelayConnectDone
  \/ RelayUpstreamOpen
  \/ RelayClientMessage
  \/ RelayUpstreamMessage
  \/ RelayClientClose
  \/ RelayUpstreamClose
SpecRelay == Init /\ [][NextRelay]_vars

(***************************************************************************)
(* The router: token validation in front of the /realtime upgrade.         *)
(* A token is header.body.signature; the HMAC of a text under a key is     *)
(* the pair of both, so that it verifies only for that text and that key.  *)
(***************************************************************************)
SESSION_SIGNING_SECRET == "secret"
RandomUUID == "uuid"

\* crypto.subtle.verify("HMAC", key, signature, data)
hmacVerify(data, signature, secret) == signature = hmacSign(data, secret)

mintToken(payload, secret) == Token(3, payload, hmacSign(payload, secret))

Invalid(error) == [valid |-> FALSE, payload |-> NoPayload, error |-> error]

\* a validation that does not verify the signature
validateToken_unsigned(token, secret, nowSeconds) ==
  IF token.parts # 3 THEN Invalid("Malformed token")
  ELSE IF ~token.sig.decodes THEN Invalid("Invalid signature encoding")
  ELSE IF ~token.body.parses THEN Invalid("Invalid payload encoding")
  ELSE IF ~token.body.hasExp \/ token.body.exp < nowSeconds
    THEN Invalid("Token expired")
  ELSE [valid |-> TRUE, payload |-> token.body, error |-> ""]

validateToken(token, secret, nowSeconds) ==
  IF token.parts # 3 THEN Invalid("Malformed token")
  ELSE IF ~token.sig.decodes THEN Invalid("Invalid signature encoding")
  ELSE IF ~hmacVerify(token.body, token.sig, secret) THEN Invalid("Invalid signature")
  ELSE IF ~token.body.parses THEN Invalid("Invalid payload encoding")
  ELSE IF ~token.body.hasExp \/ token.body.exp < nowSeconds
    THEN Invalid("Token expired")
  ELSE [valid |-> TRUE, payload |-> token.body, error |-> ""]

\* a query parameter is Null when absent; the empty string is falsy
Truthy(param) == param # Null /\ param # ""

\* stub.fetch(request) on the object named by the session parameter
forwardToSession(req) ==
  Answer(101, "", TRUE, IF req.session # Null THEN req.session ELSE RandomUUID)

\* the /realtime branch of the fetch handler of the worker
workerFetch(req, nowSeconds) ==
  IF req.upgrade # "websocket" THEN Answer(426, "Expected websocket", FALSE, Null)
  ELSE IF req.requireAuth
    THEN IF ~req.token.given
           THEN Answer(401, "token required", FALSE, Null)
         ELSE Bind(validateToken(req.token, SESSION_SIGNING_SECRET, nowSeconds),
                   LAMBDA result :
              IF ~result.valid THEN Answer(401, result.error, FALSE, Null)
              ELSE IF Truthy(req.scenarioId) /\ result.payload.scenarioId # req.scenarioId
                THEN Answer(401, "scenarioId mismatch", FALSE, Null)
              ELSE IF Truthy(req.session) /\ result.payload.sessionKey # req.session
                THEN Answer(401, "session mismatch", FALSE, Null)
              ELSE forwardToSession(req))
  ELSE forwardToSession(req)

GoodPayloads ==
  {TokenPayload(k, sc, e) : k \in {"k1", "k2"}, sc \in {"cafe", "taxi"}, e \in {1, MaxTime}}
BasePayload == TokenPayload("k1", "cafe", MaxTime)
Tokens ==
  {mintToken(p, SESSION_SIGNING_SECRET) : p \in GoodPayloads}
  \cup {mintToken(BasePayload, "forged"),
        mintToken([BasePayload EXCEPT !.hasExp = FALSE], SESSION_SIGNING_SECRET),
        mintToken(NoPayload, SESSION_SIGNING_SECRET),
        Token(3, TokenPayload("k2", "cafe", MaxTime),
              hmacSign(BasePayload, SESSION_SIGNING_SECRET)),
        Token(3, BasePayload, NotBase64),
        Token(2, BasePayload, NotBase64)}
Requests ==
  {Request(u, r, t, k, sc) :
     u \in {"websocket", Null}, r \in BOOLEAN, t \in Tokens \cup {NoToken},
     k \in {Null, "", "k1", "k2"}, sc \in {Null, "", "cafe"}}

RouterRequest ==
  \E req \in Requests :
    /\ routed' = [req |-> req, at |-> now, answer |-> workerFetch(req, now)]
    /\ UNCHANGED <<wvars, rvars>>

NextAuth ==
  \/ RouterRequest
  \/ Tick
SpecAuth == Init /\ [][NextAuth]_vars

(***************************************************************************)
(* Specifications over parts of the input alphabet.                        *)
(***************************************************************************)
\* the client protocol: every client message, connection set-up and loss
ProtoClientMessage ==
  ClientMessageIn((ClientMessages \ HelloMessages) \cup {Hello(Null), Hello("nope")})
ProtoFetch == FetchIn({Null}, ProtoConns)
NextProto ==
  \/ ProtoFetch
  \/ ProtoClientMessage
  \/ ClientClose
  \/ ClientError
  \/ ConnectDone
  \/ UpstreamClose
  \/ UpstreamError
SpecProto == Init /\ [][NextProto]_vars

\* the same with progress: every fetch() that connectToOpenAI awaits settles
\* (the oldest pending one does, so each one does in its turn). Nothing makes
\* a client or the upstream server send or close.
SpecProtoLive == SpecProto /\ WF_vars(ConnectDoneAt(1, MaxUpstream))

\* tool calls, end of call, summary, eviction
ToolsFetch == FetchIn({Null, "cafe"}, ToolsConns)
ToolsClientMessage == ClientMessageIn({Hello(Null)} \cup EndCallMessages)
ToolsEvents ==
  {e \in ToolEvents : e.callId # "c2" /\ (e.type = "response.output_item.done" => ~e.has)}
  \cup {e \in TranscriptionEvents : e.has}
ToolsUpstreamMessage == UpstreamMessageIn(ToolsEvents)
NextTools ==
  \/ ToolsFetch
  \/ SummaryRequest
  \/ ToolsClientMessage
  \/ ClientClose
  \/ ConnectDone
  \/ ToolsUpstreamMessage
  \/ UpstreamClose
  \/ Construct
SpecTools == Init /\ [][NextTools]_vars

\* guardrails: the clock, the interval, response counting, reconnection
GuardClientMessage ==
  ClientMessageIn({Hello(Null), TypedMsg("client.ping")} \cup ResponseMessages)
GuardUpstreamMessage == UpstreamMessageIn(LifecycleEvents)
GuardFetch == FetchIn({Null}, MaxConns)
NextGuard ==
  \/ GuardFetch
  \/ GuardClientMessage
  \/ ClientClose
  \/ ConnectDone
  \/ GuardUpstreamMessage
  \/ UpstreamClose
  \/ GuardrailTick
  \/ Tick
  \/ Construct
SpecGuard == Init /\ [][NextGuard]_vars

\* the upstream link: repeated client.hello, tool calls, loss of a socket
LinkFetch == FetchIn({Null}, LinkConns)
LinkClientMessage ==
  ClientMessageIn({Hello(Null), TypedMsg("client.response.cancel")})
LinkConnectDone == ConnectDoneIn(LinkUpstreams)
LinkEvents ==
  {Evt("response.function_call_arguments.done", TRUE, ArgsOk, "c1", "grade_lesson", ""),
   Evt("response.function_call_arguments.done", TRUE, ArgsOk, Null, "other", ""),
   PlainEvt("response.done")}
LinkUpstreamMessage == UpstreamMessageIn(LinkEvents)
NextLink ==
  \/ LinkFetch
  \/ LinkClientMessage
  \/ ClientClose
  \/ LinkConnectDone
  \/ LinkUpstreamMessage
  \/ UpstreamClose
  \/ UpstreamError
SpecLink == Init /\ [][NextLink]_vars

\* the end of a session: end_call, time limit, close, eviction, the clock
EndClientMessage == ClientMessageIn({Hello(Null)} \cup EndCallMessages)
EndEvents ==
  {Evt("response.function_call_arguments.done", TRUE, ArgsOk, "c1", "grade_lesson", ""),
   Evt("conversation.item.input_audio_transcription.completed", TRUE, <<"u">>,
       Null, "", ""),
   Evt("response.audio.delta", TRUE, <<"a">>, Null, "", "")}
EndUpstreamMessage == UpstreamMessageIn(EndEvents)
NextEnd ==
  \/ ToolsFetch
  \/ EndClientMessage
  \/ ClientClose
  \/ ClientError
  \/ ConnectDone
  \/ EndUpstreamMessage
  \/ GuardrailTick
  \/ Tick
  \/ Construct
SpecEnd == Init /\ [][NextEnd]_vars

\* the transcript: more texts than the window holds, blank ones among them
TranscriptTexts ==
  {Evt("conversation.item.input_audio_transcription.completed", TRUE, t, Null, "", "") :
     t \in {<<" ">>, <<"u">>}}
  \cup {Evt("response.text.done", TRUE, t, Null, "", "") :
          t \in {<<>>, <<" ", " ">>, <<"z">>}}
RoleOf(e) ==
  IF e.type = "conversation.item.input_audio_transcription.completed" THEN "user"
                                                                      ELSE "ai"
NonBlank(text) == \E i \in DOMAIN text : text[i] # " "
TranscriptAllowed(e) ==
  NonBlank(e.str) =>
    /\ Len(transcribed) < MaxAppends
    /\ RoleOf(e) = "user" =>
         Cardinality({i \in DOMAIN transcribed : transcribed[i].role = "user"}) < MaxUserEntries
TranscriptUpstreamMessage ==
  \E u \in Upstreams, e \in TranscriptTexts :
    /\ openaiSock[u] = "open"
    /\ TranscriptAllowed(e)
    /\ \E t \in {handleOpenAIMessage(Cur, e)} :
         Commit([t EXCEPT !.transcribed =
                   IF NonBlank(e.str)
                     THEN Append(@, [role |-> RoleOf(e), text |-> e.str, at |-> now])
                     ELSE @,
                           !.heard = Heard(heard, e)],
                "upstream", u, NoMsg, e)
    /\ UNCHANGED now
TranscriptClientMessage == ClientMessageIn({Hello(Null)})
NextTranscript ==
  \/ ProtoFetch
  \/ TranscriptClientMessage
  \/ ConnectDone
  \/ TranscriptUpstreamMessage
SpecTranscript == Init /\ [][NextTranscript]_vars

\* text streaming: deltas of both kinds, done events with and without a
\* text of their own, a new response, loss of the client
TextStream ==
  {Evt(t, TRUE, d, Null, "", "") :
     t \in {"response.text.delta", "response.audio_transcript.delta"},
     d \in {<<"a">>, <<"b">>}}
  \cup {Evt("response.text.delta", FALSE, <<>>, Null, "", "")}
  \cup {Evt(t, FALSE, <<>>, Null, "", "") :
          t \in {"response.text.done", "response.audio_transcript.done"}}
  \cup {Evt(t, TRUE, x, Null, "", "") :
          t \in {"response.text.done", "response.audio_transcript.done"},
          x \in {<<>>, <<"z">>}}
  \cup {PlainEvt("response.created")}
TextAllowed(e) ==
  /\ e.type = "response.text.delta" /\ e.has => Len(heard.text) < MaxHeard
  /\ e.type = "response.audio_transcript.delta" => Len(heard.audio) < MaxHeard
  /\ e.type \in {"response.text.done", "response.audio_transcript.done"}
       => Len(transcript) < MaxCompleted
  /\ e.type = "response.created" => stats.responsesCreated < MAX_RESPONSES
TextUpstreamMessage ==
  \E u \in Upstreams, e \in TextStream :
    /\ openaiSock[u] = "open"
    /\ TextAllowed(e)
    /\ \E t \in {handleOpenAIMessage(Cur, e)} :
         Commit([t EXCEPT !.heard = Heard(heard, e)], "upstream", u, NoMsg, e)
    /\ UNCHANGED now
NextText ==
  \/ ProtoFetch
  \/ TranscriptClientMessage
  \/ ClientClose
  \/ ConnectDone
  \/ TextUpstreamMessage
SpecText == Init /\ [][NextText]_vars

(***************************************************************************)
(* Properties of the relay.                                                *)
(***************************************************************************)
RECURSIVE Flatten(_)
Flatten(seq) == IF seq = <<>> THEN <<>> ELSE Head(seq) \o Flatten(Tail(seq))

C3_OnlyAllowListedUpstream ==
  [][rstep'.op = "message" =>
       /\ \A i \in DOMAIN rstep'.toUpstream :
            /\ rstep'.toUpstream[i].type
                 \in {"input_audio_buffer.append", "input_audio_buffer.commit",
                      "response.cancel", "conversation.item.truncate",
                      "response.create"}
            /\ rstep'.toUpstream[i].type = rstep'.frame.type
       /\ rstep'.frame.type \in {"session.update", "conversation.item.create"}
            => rstep'.toUpstream = <<>>]_vars

\* a session.update of the client was refused while upstream was connected
C3_Witness ==
  /\ rstep.op = "message"
  /\ rstep.frame.type = "session.update"
  /\ upstreamSocket # 0
  /\ Len(rstep.toClient) = 1
  /\ rstep.toClient[1].type = "debug.warning"
  /\ rstep.toUpstream = <<>>

(***************************************************************************)
(* Properties of tool calls, of the finalize path and of the summary.      *)
(***************************************************************************)
\* C1: over any sequence of upstream events the tool executor is invoked at
\* most once for a call_id, whether the call is signalled by the arguments
\* done event, by the output item done event, or by both.
C1_ExactlyOncePerCallId == \A c \in CallIds : executed[c] <= 1

\* C6: when client.end_call is received and the tool-result log holds no
\* grade_lesson entry, the persisted log holds exactly one grade_lesson entry
\* once the finalize path has run.
C6_EndCallSynthesizesOneGrade ==
  [][/\ step'.op = "message"
     /\ step'.msg.type = "client.end_call"
     /\ \A i \in DOMAIN toolResults : toolResults[i].name # "grade_lesson"
     => /\ Cardinality({i \in DOMAIN storage'.toolResults :
                          storage'.toolResults[i].name = "grade_lesson"}) = 1
        /\ toolResults' = storage'.toolResults]_vars

\* an end_call has graded a session whose log held only a quiz
C6_Witness ==
  /\ step.op = "message"
  /\ step.msg.type = "client.end_call"
  /\ Len(step.ran) = 1
  /\ step.ran[1].name = "grade_lesson"
  /\ Len(storage.toolResults) = 2
  /\ storage.toolResults[1].name = "trigger_quiz"
  /\ storage.toolResults[2].name = "grade_lesson"

\* C7: the summary lists the persisted tool-result log unchanged, and its
\* grade and quiz are the results of the last grade_lesson and the last
\* trigger_quiz entry of that log, or null when the log has none.
C7_SummaryRoundTrip ==
  LET body == handleSummaryRequest(Cur)
      log == storage.toolResults
      LastOf(name, value) ==
        IF \E i \in DOMAIN log : log[i].name = name
          THEN \E i \in DOMAIN log :
                 /\ log[i].name = name
                 /\ \A j \in DOMAIN log : j > i => log[j].name # name
                 /\ value = log[i].result
          ELSE value = NullResult
  IN /\ body.toolResults = log
     /\ LastOf("grade_lesson", body.grade)
     /\ LastOf("trigger_quiz", body.quiz)

\* a summary was asked of an ended session with two different grades
C7_Witness ==
  /\ step.op = "summary"
  /\ endedAt # NoTime
  /\ Len(storage.toolResults) = 2
  /\ storage.toolResults[1].name = "grade_lesson"
  /\ storage.toolResults[2].name = "grade_lesson"
  /\ storage.toolResults[1].result # storage.toolResults[2].result
  /\ handleSummaryRequest(Cur).grade = storage.toolResults[2].result

C4_NoMessageAfterResponseLimit ==
  [][stats.responsesCreated > MAX_RESPONSES /\ step'.op = "message" =>
       /\ step'.toOpenAI = <<>>
       /\ step'.toClient = <<>>
       /\ step'.puts = {}]_vars

\* C5: when the guardrail timer fires on a session whose client socket is
\* open and whose elapsed time exceeds the configured maximum, the session
\* terminates with reason time_limit and the client socket is closed.
C5_TimeLimitTerminates ==
  [][/\ step'.op = "timer"
     /\ clientWs # 0
     /\ clientSock[clientWs] = "open"
     /\ startedAt # NoTime
     /\ now - startedAt > MAX_SESSION_SECONDS
     => /\ terminationReason' = "time_limit"
        /\ clientSock'[clientWs] # "open"]_vars

(***************************************************************************)
(* Properties of the session without upstream and of termination.          *)
(***************************************************************************)
\* C11: while the session holds no upstream socket, a client message that
\* needs upstream (a text, an audio chunk, an audio commit, a response
\* create or a response cancel) sends nothing upstream and is answered with
\* a server.error on the socket it came from.
C11_AnsweredWithoutUpstream ==
  [][/\ step'.op = "message"
     /\ openaiWs = 0
     /\ step'.msg.data = "object"
     /\ step'.msg.type \in {"client.text", "client.audio.append", "client.audio.commit",
                            "client.response.create", "client.response.cancel"}
     => /\ step'.toOpenAI = <<>>
        /\ \E i \in DOMAIN step'.toClient :
             /\ step'.toClient[i].type = "server.error"
             /\ step'.toClient[i].ws = step'.ws]_vars

\* C12: once a termination reason is set, no later trigger has an effect:
\* the reason in memory and in storage stays the one of the first trigger,
\* and no step sends the error and the call-ended notification of a
\* guardrail again; the step of the first trigger sends each of them once.
C12_TerminationIdempotent ==
  [][LET notices == {i \in DOMAIN step'.toClient :
                       \/ /\ step'.toClient[i].type = "server.call_ended"
                          /\ step'.toClient[i].info \in {"time_limit", "response_limit"}
                       \/ /\ step'.toClient[i].type = "server.error"
                          /\ step'.toClient[i].info
                               \in {"Session time limit reached", "Response limit reached"}}
     IN /\ Cardinality(notices) <= 2
        /\ \A i \in notices, j \in notices :
             i # j => step'.toClient[i].type # step'.toClient[j].type
        /\ terminationReason # Null =>
             /\ terminationReason' = terminationReason
             /\ storage'.terminationReason = storage.terminationReason
             /\ "terminationReason" \notin step'.puts
             /\ notices = {}]_vars

\* the time limit was exceeded on a session that the response limit had
\* already terminated, and the timer callback changed nothing
C12_Witness ==
  /\ step.op = "timer"
  /\ startedAt # NoTime
  /\ now - startedAt > MAX_SESSION_SECONDS
  /\ terminationReason = "response_limit"
  /\ storage.terminationReason = "response_limit"
  /\ step.toClient = <<>>
  /\ step.puts = {}

\* C13: when a guardrail terminates the session (the termination reason
\* goes from null to the reason of the trigger), a client that is still
\* connected is sent a server.error and then a server.call_ended with that
\* reason before its socket is closed; after the step no client socket and
\* no upstream socket of the session is open, no timer is armed, and the
\* persisted termination reason is the reason of the trigger.
C13_TerminationCompletes ==
  [][terminationReason = Null /\ terminationReason' # Null =>
       /\ clientWs # 0 /\ clientSock[clientWs] = "open" =>
            /\ \E i \in DOMAIN step'.toClient, j \in DOMAIN step'.toClient :
                 /\ i < j
                 /\ step'.toClient[i].type = "server.error"
                 /\ step'.toClient[i].ws = clientWs
                 /\ step'.toClient[j] =
                      ClientEvent(clientWs, "server.call_ended", terminationReason', <<>>)
            /\ <<"client", clientWs>> \in step'.closed
       /\ \A c \in Conns : clientSock'[c] # "open"
       /\ \A u \in Upstreams : openaiSock'[u] # "open"
       /\ timers' = {}
       /\ storage'.terminationReason = terminationReason']_vars

(***************************************************************************)
(* Properties of the end of a call and of the loss of a socket.            *)
(***************************************************************************)
\* C14: when the finalize path of client.end_call has run, the client
\* socket the message came from and every upstream socket are closed, a
\* server.call_ended has been sent on the client socket, and no timer is
\* armed.
C14_EndCallClosesBoth ==
  [][step'.op = "message" /\ step'.msg.type = "client.end_call" =>
       /\ \E i \in DOMAIN step'.toClient :
            /\ step'.toClient[i].type = "server.call_ended"
            /\ step'.toClient[i].ws = step'.ws
       /\ clientSock'[step'.ws] # "open"
       /\ \A u \in Upstreams : openaiSock'[u] # "open"
       /\ timers' = {}]_vars

\* C15: when an upstream socket closes or errors while a client is
\* connected, the session terminates: after the step the client socket is
\* not open and no timer is armed.
C15_UpstreamLossTerminates ==
  [][/\ step'.op \in {"upstream.close", "upstream.error"}
     /\ openaiWs = step'.ws
     /\ clientWs # 0
     /\ clientSock[clientWs] = "open"
     => /\ clientSock'[clientWs] # "open"
        /\ timers' = {}]_vars

\* C16: whenever a client socket was accepted and no client socket is open
\* any more, the session eventually holds no open upstream socket, also
\* when the upstream connection attempt completes after the close.
C16_NoUpstreamWithoutClient ==
  (/\ \E c \in Conns : clientSock[c] # "none"
   /\ \A c \in Conns : clientSock[c] # "open")
    ~> (\A u \in Upstreams : openaiSock[u] # "open")

(***************************************************************************)
(* Properties of the upstream link.                                        *)
(***************************************************************************)
\* C17: for every tool call the executor is invoked for, with a known or an
\* unknown tool, the handler sends upstream exactly a function_call_output
\* item that carries the call_id of the call and then a response.create.
C17_OutputThenResponseCreate ==
  [][step'.op = "upstream" /\ step'.ran # <<>> =>
       /\ Len(step'.toOpenAI) = 2
       /\ step'.toOpenAI[1].type = "conversation.item.create"
       /\ step'.toOpenAI[1].item = "function_call_output"
       /\ step'.toOpenAI[1].callId = step'.evt.callId
       /\ step'.toOpenAI[2].type = "response.create"]_vars

\* C19: at most one upstream socket of the session is open at any time, and
\* an event of an upstream socket that is not the one the session holds
\* (a message, a close, an error) changes nothing of the session: it sends
\* nothing, runs no tool and leaves the held socket in place.
C19_SingleUpstream ==
  [][/\ Cardinality({u \in Upstreams : openaiSock'[u] = "open"}) <= 1
     /\ /\ step'.op \in {"upstream", "upstream.close", "upstream.error"}
        /\ step'.ws # openaiWs
        => /\ openaiWs' = openaiWs
           /\ step'.toClient = <<>>
           /\ step'.toOpenAI = <<>>
           /\ step'.ran = <<>>]_vars

(***************************************************************************)
(* Properties of the arguments of a tool call.                             *)
(***************************************************************************)
\* C18: when the done event of a call arrives and the argument text
\* buffered for the call is not blank and is not valid JSON, the tool
\* executor is invoked for the call with the empty object as arguments; the
\* call is not answered with a parse error in place of the result of the
\* tool.
C18_InvalidArgsRunWithEmptyObject ==
  [][/\ rstep'.op = "upstream"
     /\ rstep'.frame.type = "response.function_call_arguments.done"
     /\ rstep'.frame.callId # Null
     /\ rstep'.frame.name # ""
     /\ toolArgsByCallId[rstep'.frame.callId].has
     /\ Trim(toolArgsByCallId[rstep'.frame.callId].argsText) # <<>>
     /\ ~JsonParse(toolArgsByCallId[rstep'.frame.callId].argsText).ok
     => /\ Len(rstep'.ran) = 1
        /\ rstep'.ran[1].args = ObjVal({})
        /\ rstep'.ran[1].parseError = ""
        /\ rstep'.frame.name \in {"grade_lesson", "trigger_quiz"}
             => rstep'.ran[1].invoked]_vars

(***************************************************************************)
(* C20 as stated: an upgrade request that carries a token which is        *)
(* malformed, wrongly signed, expired, or minted for another session key  *)
(* or scenario id than the request asks for is never forwarded to a       *)
(* session object, whatever the auth-required setting.                    *)
(***************************************************************************)
C20_BadTokenNeverForwarded ==
  LET req == routed.req
      token == req.token
      sound == /\ token.parts = 3
               /\ token.sig = [decodes |-> TRUE, data |-> token.body,
                               key |-> SESSION_SIGNING_SECRET]
               /\ token.body.parses
               /\ token.body.hasExp
               /\ token.body.exp >= routed.at
      mismatched == \/ req.session # Null /\ token.body.sessionKey # req.session
                    \/ req.scenarioId # Null /\ token.body.scenarioId # req.scenarioId
  IN  (token.given /\ (~sound \/ mismatched)) => ~routed.answer.forwarded

(***************************************************************************)
(* C20 amended: a request is forwarded to a session object exactly when   *)
(* it asks for a WebSocket upgrade and, if auth is required, carries a    *)
(* three-part token signed with the worker's secret whose payload parses, *)
(* has not expired, and names the scenario id and the session key of the  *)
(* query wherever the query gives a non-empty one. With auth required     *)
(* every other upgrade request is answered 401. With auth not required    *)
(* the token plays no part.                                               *)
(***************************************************************************)
C20_ForwardedIffAuthorised ==
  LET req == routed.req
      token == req.token
      sound == /\ token.given
               /\ token.parts = 3
               /\ token.sig = [decodes |-> TRUE, data |-> token.body,
                               key |-> SESSION_SIGNING_SECRET]
               /\ token.body.parses
               /\ token.body.hasExp
               /\ token.body.exp >= routed.at
      matches == /\ req.session \in {Null, "", token.body.sessionKey}
                 /\ req.scenarioId \in {Null, "", token.body.scenarioId}
      authorised == req.upgrade = "websocket"
                    /\ (req.requireAuth => sound /\ matches)
  IN  /\ routed.answer.forwarded <=> authorised
      /\ (req.upgrade = "websocket" /\ ~authorised) => routed.answer.status = 401
      /\ routed.answer.forwarded =>
           routed.answer.sessionKey = (IF req.session = Null THEN RandomUUID
                                       ELSE req.session)

\* auth is required and a three-part token signed with another secret is refused
C20_Witness ==
  /\ routed.req.upgrade = "websocket"
  /\ routed.req.requireAuth
  /\ routed.req.token.given
  /\ routed.req.token.parts = 3
  /\ routed.req.token.sig.decodes
  /\ routed.req.token.sig.key # SESSION_SIGNING_SECRET
  /\ routed.answer.status = 401
  /\ ~routed.answer.forwarded

(***************************************************************************)
(* Properties of the session record: summary, progress, transcript, log.   *)
(***************************************************************************)
\* C21: the summary query changes nothing: the fields of the object, the
\* storage, the sockets and the timers are the same after it as before, and
\* it sends nothing, writes nothing and closes nothing.
C21_SummaryChangesNothing ==
  [][step'.op = "summary" =>
       /\ UNCHANGED <<now, session, clientWs, openaiWs, clientSock, openaiSock,
                      pendingResponseText, pendingAudioTranscript, pendingToolCalls,
                      toolResults, startedAt, endedAt, terminationReason,
                      guardrailTimer, timers, stats, transcript, progress,
                      loadedScenario, storage, connecting, executed,
                      synthesized, transcribed, heard, callEnded>>
       /\ step'.toClient = <<>>
       /\ step'.toOpenAI = <<>>
       /\ step'.puts = {}
       /\ step'.ran = <<>>
       /\ step'.closed = {}]_vars

\* a summary was asked of a live session: a client and an upstream socket
\* are open, the timer is armed and the log has an entry
C21_Witness ==
  /\ step.op = "summary"
  /\ clientWs # 0
  /\ openaiWs # 0
  /\ timers # {}
  /\ toolResults # <<>>
  /\ startedAt # NoTime

(***************************************************************************)
(* C22 as stated: every client.hello received on an open client socket is *)
(* eventually followed by a server.hello to that client, whether the      *)
(* upstream connection succeeds or fails.                                 *)
(***************************************************************************)
C22_HelloAlwaysAnswered ==
  \A c \in Conns :
    (step.op = "message" /\ step.ws = c /\ step.msg.type = "client.hello")
      ~> (\E i \in DOMAIN step.toClient :
            step.toClient[i].ws = c /\ step.toClient[i].type = "server.hello")

(***************************************************************************)
(* C22 amended: every client.hello received on a client socket is         *)
(* eventually followed by a server.hello to that client or by that socket *)
(* no longer being open. Each connection attempt that returns while the   *)
(* socket of its hello is open sends exactly one server.hello, to that    *)
(* socket and as the last event of the step, and its flag is true exactly *)
(* when the attempt established an upstream socket. An attempt that       *)
(* returns after the socket stopped being open sends nothing to it.       *)
(***************************************************************************)
C22_HelloAnsweredWhileOpen ==
  /\ \A c \in Conns :
       (step.op = "message" /\ step.ws = c /\ step.msg.type = "client.hello")
         ~> (\/ clientSock[c] # "open"
             \/ \E i \in DOMAIN step.toClient :
                  step.toClient[i].ws = c /\ step.toClient[i].type = "server.hello")
  /\ [][step'.op \in {"ok", "nosocket", "throws"} =>
          LET hellos == {i \in DOMAIN step'.toClient :
                           step'.toClient[i].type = "server.hello"}
              established == /\ openaiWs' # 0
                             /\ openaiSock[openaiWs'] = "none"
                             /\ openaiSock'[openaiWs'] = "open"
          IN  /\ Len(connecting') = Len(connecting) - 1
              /\ established <=> step'.op = "ok"
              /\ IF clientSock[step'.ws] = "open"
                   THEN /\ hellos = {Len(step'.toClient)}
                        /\ step'.toClient[Len(step'.toClient)].ws = step'.ws
                        /\ step'.toClient[Len(step'.toClient)].info
                             = (IF established THEN "openai" ELSE "degraded")
                   ELSE step'.toClient = <<>>]_vars

\* the upstream socket was established and the client was told so
C22_Witness ==
  /\ step.op = "ok"
  /\ clientSock[step.ws] = "open"
  /\ openaiWs # 0
  /\ openaiSock[openaiWs] = "open"
  /\ Len(step.toClient) = 1
  /\ step.toClient[1] = ClientEvent(step.ws, "server.hello", "openai", <<>>)

\* C23: under any interleaving of end_call handling, repeated end_call
\* messages included, with upstream tool calls, the finalize path appends at
\* most one synthesized grade_lesson entry and at most one synthesized
\* trigger_quiz entry per session, and it appends no synthesized entry for
\* a tool name that already has an entry in the log.
C23_AtMostOneSynthesized ==
  /\ [](\A n \in ToolNames : synthesized[n] <= 1)
  /\ [][\A n \in ToolNames :
          synthesized'[n] # synthesized[n] =>
            /\ step'.op = "message"
            /\ step'.msg.type = "client.end_call"
            /\ synthesized'[n] = synthesized[n] + 1
            /\ \A i \in DOMAIN toolResults : toolResults[i].name # n
            /\ Cardinality({i \in DOMAIN toolResults' : toolResults'[i].name = n}) = 1]_vars

\* a second end_call of a session with auto quiz found the quiz of a tool
\* call and the grade of the first end_call, and synthesized nothing
C23_Witness ==
  /\ step.op = "message"
  /\ step.msg.type = "client.end_call"
  /\ step.ran = <<>>
  /\ synthesized["grade_lesson"] = 1
  /\ synthesized["trigger_quiz"] = 0
  /\ loadedScenario \in AutoQuizScenarios
  /\ Len(toolResults) = 2
  /\ toolResults[1].name = "trigger_quiz"
  /\ toolResults[2].name = "grade_lesson"

\* C24: the progress record is write-once: it is unset (not completed, no
\* score, no completion time) until an end_call finalize has run, and once
\* it is completed no later operation changes any of its fields.
C24_ProgressWriteOnce ==
  /\ [](~progress.completed => progress = NoProgress)
  /\ [][progress.completed => progress' = progress]_vars
  /\ [][progress' # progress =>
          step'.op = "message" /\ step'.msg.type = "client.end_call"]_vars

\* C25: when an end_call finalize completes, the persisted progress is
\* completed, its completedAt is the persisted end timestamp, and its
\* completionScore is the score of the last grade_lesson entry of the log
\* when that score is a number, and null when it is not.
C25_ProgressOfFinalize ==
  [][step'.op = "message" /\ step'.msg.type = "client.end_call" =>
       LET log == toolResults'
           grades == {i \in DOMAIN log : log[i].name = "grade_lesson"}
           last == CHOOSE i \in grades : \A j \in grades : j <= i
       IN  /\ storage'.progress.completed
           /\ storage'.progress.completedAt = storage'.endedAt
           /\ storage'.endedAt = now
           /\ grades # {}
           /\ storage'.progress.completionScore
                = (IF log[last].result.score \in Nat THEN log[last].result.score
                   ELSE NoScore)
           /\ storage'.progress = progress'
           /\ storage'.toolResults = log]_vars

\* an end_call found two grades with different scores, took the score of the
\* second one and stamped the progress with the time of the end_call
C25_Witness ==
  /\ step.op = "message"
  /\ step.msg.type = "client.end_call"
  /\ Len(toolResults) = 2
  /\ toolResults[1].name = "grade_lesson"
  /\ toolResults[2].name = "grade_lesson"
  /\ toolResults[1].result.score # toolResults[2].result.score
  /\ storage.progress.completionScore = toolResults[2].result.score
  /\ storage.progress.completedAt = now
  /\ now > 0

\* C26: after any sequence of transcript appends the transcript holds at
\* most 30 entries and is, in order, the last min(k, 30) of the k non-blank
\* entries appended so far; a blank or whitespace-only text is never added.
C26_TranscriptIsLastThirty ==
  LET k == Len(transcribed)
      kept == IF k < 30 THEN k ELSE 30
  IN  /\ Len(transcript) <= 30
      /\ Len(transcript) = kept
      /\ \A i \in 1..kept : transcript[i] = transcribed[k - kept + i]
      /\ \A i \in DOMAIN transcript :
           \E j \in DOMAIN transcript[i].text : transcript[i].text[j] # " "

\* more than 30 texts were appended, a whitespace-only one was just
\* refused, and the one user text has moved up in the window
C26_Witness ==
  /\ Len(transcribed) > 30
  /\ Len(transcript) = 30
  /\ step.op = "upstream"
  /\ step.evt.str = <<" ", " ">>
  /\ \E i \in 2..29 : transcript[i].role = "user"
  /\ transcribed[1].role = "ai"

\* C27: the tool-result log is append-only: every operation leaves the
\* entries it finds unchanged and in their positions and adds entries only
\* at the end; and each time a tool execution, aggregated or synthesized at
\* end_call, has completed, the persisted log equals the log in memory.
C27_LogAppendOnly ==
  /\ [][/\ Len(toolResults') >= Len(toolResults)
        /\ \A i \in DOMAIN toolResults : toolResults'[i] = toolResults[i]
        /\ Len(storage'.toolResults) >= Len(storage.toolResults)
        /\ \A i \in DOMAIN storage.toolResults :
             storage'.toolResults[i] = storage.toolResults[i]]_vars
  /\ [][step'.ran # <<>> =>
          /\ storage'.toolResults = toolResults'
          /\ Len(toolResults') = Len(toolResults) + Len(step'.ran)
          /\ \A i \in DOMAIN step'.ran :
               toolResults'[Len(toolResults) + i].name = step'.ran[i].name]_vars

\* an end_call appended a synthesized quiz behind the grade of a tool call
\* of the model, and the stored log is the log in memory
C27_Witness ==
  /\ step.op = "message"
  /\ step.msg.type = "client.end_call"
  /\ Len(step.ran) = 1
  /\ step.ran[1].name = "trigger_quiz"
  /\ Len(toolResults) = 2
  /\ toolResults[1].name = "grade_lesson"
  /\ executed["c1"] = 1
  /\ toolResults[2].name = "trigger_quiz"
  /\ storage.toolResults = toolResults

C29_ConfigurationFirst ==
  \A u \in RUps : firstSent[u] \in {Null, "session.update"}

\* C30: when the client socket closes or errors and neither end_call nor a
\* guardrail trip came before, the stored record and the summary get an end
\* timestamp and the stored stats are the stats at close
C30_CloseFinalizes ==
  [][step'.op \in {"close", "error"} /\ step'.ws = clientWs
       /\ endedAt = NoTime /\ terminationReason = Null
       => /\ endedAt' # NoTime
          /\ handleSummaryRequest(Cur)'.endedAt # NoTime
          /\ storage'.endedAt = endedAt'
          /\ stats' = stats
          /\ storage'.stats = stats]_vars

(***************************************************************************)
(* Properties of a session that has ended.                                 *)
(***************************************************************************)
\* C31: once the session has terminated, by a guardrail trip or by end_call,
\* the stored stats equal the counters in memory: no counter is incremented
\* after the last put of the stats
C31_StatsSettledAtTermination ==
  terminationReason # Null \/ endedAt # NoTime => storage.stats = stats

\* C32: the buffers are one Map entry per call_id, and once the done event
\* of the arguments of a call_id has been handled no buffer is left for it
C32_BufferGoneAfterDone ==
  [][rstep'.op = "upstream" /\ rstep'.frame.data = "object"
       /\ rstep'.frame.type = "response.function_call_arguments.done"
       /\ rstep'.frame.callId # Null
       => ~toolArgsByCallId'[rstep'.frame.callId].has]_vars

\* C33: after the session has ended no protocol state of it is left in
\* memory: with the client gone the tool-call buffers are empty
C33_NoBuffersAfterEnd ==
  clientSocket = 0 => \A c \in CallIds : ~toolArgsByCallId[c].has

(***************************************************************************)
(* Properties of the guardrails across connections.                        *)
(***************************************************************************)
\* C34: the guardrails apply to every accepted connection: when the current
\* client socket exceeds the response limit, or the timer finds the maximum
\* duration exceeded, the handler notifies the client with server.call_ended
\* and leaves neither the client socket nor the upstream socket open, also
\* on a connection accepted after an earlier guardrail termination
C34_GuardrailsOnEveryConnection ==
  [][LET overResponses == /\ step'.op = "message"
                          /\ step'.msg.type = "client.response.create"
                          /\ step'.ws = clientWs
                          /\ stats'.responsesCreated > MAX_RESPONSES
         overTime == /\ step'.op = "timer"
                     /\ clientWs # 0 /\ clientSock[clientWs] = "open"
                     /\ startedAt # NoTime
                     /\ now - startedAt > MAX_SESSION_SECONDS
     IN overResponses \/ overTime
          => /\ clientSock'[clientWs] # "open"
             /\ \E k \in DOMAIN step'.toClient :
                  /\ step'.toClient[k].ws = clientWs
                  /\ step'.toClient[k].type = "server.call_ended"
             /\ openaiWs # 0 => openaiSock'[openaiWs] # "open"]_vars

\* C35: whenever an upstream socket is open a duration guardrail timer is
\* armed
C35_UpstreamUnderGuardrail ==
  (\E u \in Upstreams : openaiSock[u] = "open") => timers # {}

\* C36: at most one client socket and at most one guardrail timer act on
\* the session object: no second client socket is open, no second timer is
\* armed, and the close or error of a socket that is not the current one
\* leaves the current client socket, the upstream socket and the timer alone
C36_OneClientOneTimer ==
  [][/\ Cardinality({c \in Conns : clientSock'[c] = "open"}) <= 1
     /\ Cardinality(timers') <= 1
     /\ step'.op \in {"close", "error"} /\ clientWs # 0 /\ step'.ws # clientWs
          => /\ clientWs' = clientWs
             /\ openaiWs' = openaiWs
             /\ openaiSock' = openaiSock
             /\ timers' = timers]_vars

\* C37: once a guardrail has tripped no event is sent on an upstream socket:
\* a handler that ends with the termination reason set has sent none, so the
\* response.create that breached the limit is not forwarded
C37_NothingUpstreamAfterTrip ==
  [][terminationReason' # Null => step'.toOpenAI = <<>>]_vars

\* C38: the response limit trips exactly when the counter of responses
\* becomes greater than MAX_RESPONSES: a client response.create and an
\* upstream response.created each add exactly 1 to the counter, the
\* termination reason becomes response_limit only in a step that takes the
\* counter above MAX_RESPONSES, and no step leaves the counter above
\* MAX_RESPONSES without a termination reason
C38_ResponseLimitThreshold ==
  [][LET counted == \/ step'.op = "message" /\ step'.msg.type = "client.response.create"
                    \/ step'.op = "upstream" /\ step'.evt.type = "response.created"
         trip == terminationReason # "response_limit"
                 /\ terminationReason' = "response_limit"
     IN /\ counted => stats'.responsesCreated = stats.responsesCreated + 1
        /\ trip => /\ counted
                   /\ terminationReason = Null
                   /\ stats.responsesCreated <= MAX_RESPONSES
                   /\ stats'.responsesCreated = MAX_RESPONSES + 1
        /\ stats'.responsesCreated <= MAX_RESPONSES /\ terminationReason = Null
             => terminationReason' # "response_limit"
        /\ stats'.responsesCreated > MAX_RESPONSES => terminationReason' # Null]_vars

\* the second response.create of a connection took the counter to
\* MAX_RESPONSES + 1 and tripped the limit
C38_Witness ==
  /\ step.op = "message"
  /\ step.msg.type = "client.response.create"
  /\ stats.responsesCreated = MAX_RESPONSES + 1
  /\ terminationReason = "response_limit"
  /\ \E k \in DOMAIN step.toClient :
       step.toClient[k].type = "server.call_ended"
       /\ step.toClient[k].info = "response_limit"

\* C39: server.call_ended is sent at most once on every client socket
C39_CallEndedOnce ==
  \A c \in Conns : callEnded[c] <= 1

====
